---- MODULE Spec2Model ----
(***************************************************************************)
(* Model of the jewelry try-on pipeline of astra-assignment: the placement *)
(* estimators (heuristic, Gemini-assisted, OpenAI-vision-assisted), the    *)
(* compositor and the integrity validator.                                 *)
(*                                                                         *)
(* The operations are stateless functions of their arguments and of the    *)
(* answers of their collaborators (sharp, the vision services).  The state *)
(* of the model is the most recent call and what it returned.              *)
(*                                                                         *)
(* Numbers.  The code computes in IEEE doubles.  The model uses fixed      *)
(* point: every coordinate, scale, confidence and angle is an integer      *)
(* count of thousandths (600 px is 600000, scale 0.4 is 400, confidence    *)
(* 0.5 is 500, 15 degrees is 15000).  Inputs are chosen so that the        *)
(* products the code forms are exact in thousandths; the quotients         *)
(* landmark/width are truncated to thousandths.                            *)
(*                                                                         *)
(* Four further state machines share the module: concurrent runs of        *)
(* processVirtualTryOn (req), the retry loop of generateBaseModel (gen),   *)
(* the interactive positioning canvas (canvas) and the high-fidelity       *)
(* preview with its asynchronous redraws (preview).                        *)
(***************************************************************************)
EXTENDS Integers, Sequences, FiniteSets, TLC

VARIABLES call, ret, req, gen, canvas, preview

vars == <<call, ret, req, gen, canvas, preview>>

Max2(a, b) == IF a >= b THEN a ELSE b

Min2(a, b) == IF a <= b THEN a ELSE b

SetMin(S) == CHOOSE m \in S : \A n \in S : m <= n

SetMax(S) == CHOOSE m \in S : \A n \in S : m >= n

Abs(a) == IF a < 0 THEN 0 - a ELSE a

\* Math.max(lo, Math.min(hi, v))
Clamp(lo, hi, v) == Max2(lo, Min2(hi, v))

\* Math.round on thousandths: the nearest integer, halves upwards
RoundMilli(v) == ((v + 500) \div 1000) * 1000

\* a || b on an optional numeric field: missing, 0 (and NaN) are falsy
OrElse(obj, field, dflt) ==
    IF field \in DOMAIN obj /\ obj[field] # 0 THEN obj[field] ELSE dflt

JewelryTypes == {"ring", "necklace", "earrings", "bracelet"}

\* body image / canvas sizes in pixels, <<width, height>>
Canvases == {<<1200, 900>>, <<900, 1200>>}

(***************************************************************************)
(* Heuristic placement (placement.ts)                                      *)
(***************************************************************************)

Point(px, py) == [x |-> px, y |-> py]

\* what findLargestRegion returns: null, or the extent of the largest skin
\* blob (pixels; the centroid in thousandths of a pixel)
NoRegion ==
    [found |-> FALSE, left |-> 0, right |-> 0, top |-> 0, bottom |-> 0,
     centerX |-> 0, centerY |-> 0, area |-> 0]

\* a filled rectangular blob left..right x top..bottom
Blob(l, t, w, h) ==
    [found |-> TRUE, left |-> l, right |-> l + w - 1, top |-> t,
     bottom |-> t + h - 1, centerX |-> (2 * l + w - 1) * 500,
     centerY |-> (2 * t + h - 1) * 500, area |-> w * h]

\* the skin blobs the pixel analysis is taken to find in a W x H image
Regions(W, H) ==
    {NoRegion} \cup
    {Blob(l, t, w, h) : l \in {3, 400, W - 210}, t \in {100, 500},
                        w \in {2, 200}, h \in {1, 250}}

NoTip == [found |-> FALSE, x |-> 0, y |-> 0]

\* detectFingerTips on a filled blob: the columns searchLeft, searchLeft+5,
\* ... of the widened hand box are scanned downwards for their first skin
\* pixel; the stable sort by y keeps the leftmost of the topmost ones
detectFingerTips(region, W, H) ==
    LET searchLeft == Max2(0, region.left - 20)
        searchRight == Min2(W - 1, region.right + 20)
        cols == {k \in region.left..region.right :
                    k <= searchRight /\ (k - searchLeft) % 5 = 0}
    IN  IF cols = {}
        THEN NoTip
        ELSE [found |-> TRUE,
              x |-> CHOOSE k \in cols : \A j \in cols : k <= j,
              y |-> region.top]

detectFaceRegion(region, W, H) ==
    LET faceWidth == region.right - region.left
        faceHeight == region.bottom - region.top
    IN  IF /\ region.found
           /\ region.area * 50 > W * H
           /\ faceHeight > 0
           /\ 10 * faceWidth > 6 * faceHeight
           /\ 10 * faceWidth < 14 * faceHeight
        THEN region
        ELSE NoRegion

detectHandLandmarks(region, W, H) ==
    IF region.found
    THEN LET tip == detectFingerTips(region, W, H) IN
         IF tip.found
         THEN <<Point((tip.x * 1000) \div W, (tip.y * 1000) \div H)>>
         ELSE <<Point(region.centerX \div W, region.centerY \div H)>>
    ELSE <<Point(600, 500)>>

detectNeckLandmarks(region, W, H) ==
    LET faceRegion == detectFaceRegion(region, W, H)
        \* neckY = bottom + (height - bottom) * 0.1, in thousandths of a pixel
        neckY == faceRegion.bottom * 1000 + (H - faceRegion.bottom) * 100
    IN  IF faceRegion.found
        THEN <<Point(faceRegion.centerX \div W, neckY \div H)>>
        ELSE <<Point(500, 350)>>

detectEarLandmarks(region, W, H) ==
    LET faceRegion == detectFaceRegion(region, W, H)
        earY == faceRegion.centerY
    IN  IF faceRegion.found
        THEN <<Point(((faceRegion.left - 20) * 1000) \div W, earY \div H),
               Point(((faceRegion.right + 20) * 1000) \div W, earY \div H)>>
        ELSE <<Point(350, 250), Point(650, 250)>>

analyzeImageForLandmarks(jewelryType, region, W, H) ==
    CASE jewelryType \in {"ring", "bracelet"} ->
            [hands |-> detectHandLandmarks(region, W, H), face |-> <<>>]
      [] jewelryType = "necklace" ->
            [hands |-> <<>>, face |-> detectNeckLandmarks(region, W, H)]
      [] jewelryType = "earrings" ->
            [hands |-> <<>>, face |-> detectEarLandmarks(region, W, H)]

estimateLandmarks(jewelryType) ==
    CASE jewelryType = "ring" -> [hands |-> <<Point(600, 500)>>, face |-> <<>>]
      [] jewelryType = "necklace" -> [hands |-> <<>>, face |-> <<Point(500, 300)>>]
      [] jewelryType = "earrings" ->
            [hands |-> <<>>, face |-> <<Point(350, 250), Point(650, 250)>>]
      [] jewelryType = "bracelet" -> [hands |-> <<Point(400, 600)>>, face |-> <<>>]

\* detectBodyLandmarks: the analysis, or the estimate when decoding throws
detectBodyLandmarks(jewelryType, decodes, region, W, H) ==
    IF decodes
    THEN analyzeImageForLandmarks(jewelryType, region, W, H)
    ELSE estimateLandmarks(jewelryType)

\* jewelry dimensions in millimetres; NoDimensions is a missing argument
NoDimensions == [given |-> FALSE, width |-> 0, height |-> 0]

Dimensions ==
    {NoDimensions} \cup
    {[given |-> TRUE, width |-> w, height |-> h] : w \in {1, 18, 45, 240}, h \in {17, 60}}

calculateRingScale(dimensions) == (dimensions.width * 1000) \div 18

calculateNecklaceScale(dimensions) ==
    Min2((dimensions.width * 1000) \div 120, 1500)

calculateEarringScale(dimensions) == (dimensions.height * 1000) \div 17

calculateBraceletScale(dimensions) == (dimensions.width * 1000) \div 65

analyzeLandmarkOrientation(landmarks) ==
    LET twoEars == Len(landmarks.face) >= 2
        leftEar == landmarks.face[1]
        rightEar == landmarks.face[2]
        earDistance == Abs(leftEar.x - rightEar.x)
        earYDifference == Abs(leftEar.y - rightEar.y)
        profile0 == IF earDistance < 150 THEN 900
                    ELSE IF earDistance < 250 THEN 600
                    ELSE IF earDistance < 350 THEN 300
                    ELSE 100
        tilted == twoEars /\ earYDifference > 50
        hasHand == Len(landmarks.hands) > 0
        hand == landmarks.hands[1]
        angle0 == IF Abs(hand.x - 500) > 300 THEN (hand.x - 500) * 90 ELSE 0
        angle1 == IF hand.y < 400 THEN angle0 + 15000
                  ELSE IF hand.y > 700 THEN angle0 - 10000
                  ELSE angle0
    IN  [faceProfile |-> IF ~twoEars THEN 0
                         ELSE IF tilted THEN Min2(1000, profile0 + 200)
                         ELSE profile0,
         hasHandAngle |-> hasHand,
         handAngle |-> IF hasHand THEN angle1 ELSE 0,
         bodyTilt |-> IF tilted THEN (leftEar.y - rightEar.y) * 180 ELSE 0]

calculatePerspective(jewelryType, landmarks) ==
    LET orientation == analyzeLandmarkOrientation(landmarks) IN
    CASE jewelryType = "ring" ->
            IF orientation.hasHandAngle
            THEN IF Abs(orientation.handAngle) > 30000 THEN "angled" ELSE "front"
            ELSE "angled"
      [] jewelryType = "necklace" ->
            IF orientation.faceProfile > 700 THEN "side"
            ELSE IF orientation.faceProfile > 300 THEN "angled"
            ELSE "front"
      [] jewelryType = "earrings" ->
            IF orientation.faceProfile > 500 THEN "side"
            ELSE IF orientation.faceProfile > 200 THEN "angled"
            ELSE "front"
      [] jewelryType = "bracelet" ->
            IF orientation.hasHandAngle
            THEN IF Abs(orientation.handAngle) > 45000 THEN "side" ELSE "angled"
            ELSE "angled"

calculateRotation(jewelryType, landmarks, perspective) ==
    LET orientation == analyzeLandmarkOrientation(landmarks)
        baseRotation ==
            CASE jewelryType = "ring" ->
                    IF perspective = "angled"
                    THEN IF orientation.hasHandAngle
                         THEN (0 - 15000) + (orientation.handAngle * 3) \div 10
                         ELSE 0 - 15000
                    ELSE IF perspective = "side"
                    THEN IF orientation.hasHandAngle
                         THEN orientation.handAngle
                         ELSE 0 - 25000
                    ELSE 0
              [] jewelryType = "necklace" ->
                    orientation.bodyTilt \div 2 +
                    (IF perspective = "side" THEN 0 - 10000
                     ELSE IF perspective = "angled"
                     THEN IF orientation.faceProfile > 500 THEN 0 - 8000 ELSE 8000
                     ELSE 0)
              [] jewelryType = "earrings" ->
                    (orientation.bodyTilt * 7) \div 10 +
                    (IF perspective = "side" THEN 0 - 5000
                     ELSE IF perspective = "angled"
                     THEN IF orientation.faceProfile > 500 THEN 0 - 3000 ELSE 3000
                     ELSE 0)
              [] jewelryType = "bracelet" ->
                    IF perspective = "angled"
                    THEN IF orientation.hasHandAngle
                         THEN 10000 + (orientation.handAngle * 4) \div 10
                         ELSE 10000
                    ELSE IF perspective = "side"
                    THEN IF orientation.hasHandAngle
                         THEN (orientation.handAngle * 6) \div 10
                         ELSE 15000
                    ELSE 0
    IN  Clamp(0 - 45000, 45000, baseRotation)

\* the catch branch of calculateJewelryPlacement
DefaultPlacement ==
    [x |-> 500, y |-> 500, scale |-> 1000, rotation |-> 0, perspective |-> "front"]

\* calculateJewelryPlacement: x and y are the landmark's normalised
\* coordinates; reading a field of missing dimensions throws into the catch
calculateJewelryPlacement(jewelryType, dimensions, decodes, region, W, H) ==
    LET landmarks == detectBodyLandmarks(jewelryType, decodes, region, W, H)
        perspective == calculatePerspective(jewelryType, landmarks)
        rotation == calculateRotation(jewelryType, landmarks, perspective)
        hasHands == Len(landmarks.hands) > 0
        hasFace == Len(landmarks.face) > 0
        hasEars == Len(landmarks.face) >= 2
        used == CASE jewelryType = "ring" -> hasHands
                  [] jewelryType = "necklace" -> hasFace
                  [] jewelryType = "earrings" -> hasEars
                  [] jewelryType = "bracelet" -> hasHands
        placed ==
            CASE jewelryType = "ring" ->
                    [x |-> landmarks.hands[1].x, y |-> landmarks.hands[1].y,
                     scale |-> calculateRingScale(dimensions)]
              [] jewelryType = "necklace" ->
                    [x |-> landmarks.face[1].x, y |-> landmarks.face[1].y + 150,
                     scale |-> calculateNecklaceScale(dimensions)]
              [] jewelryType = "earrings" ->
                    [x |-> (landmarks.face[1].x + landmarks.face[2].x) \div 2,
                     y |-> landmarks.face[1].y,
                     scale |-> calculateEarringScale(dimensions)]
              [] jewelryType = "bracelet" ->
                    [x |-> landmarks.hands[1].x, y |-> landmarks.hands[1].y + 100,
                     scale |-> calculateBraceletScale(dimensions)]
    IN  IF used /\ ~dimensions.given
        THEN DefaultPlacement
        ELSE IF used
        THEN [x |-> placed.x, y |-> placed.y, scale |-> placed.scale,
              rotation |-> rotation, perspective |-> perspective]
        ELSE [x |-> 500, y |-> 500, scale |-> 1000,
              rotation |-> rotation, perspective |-> perspective]

(***************************************************************************)
(* Answers of the vision services                                          *)
(*                                                                         *)
(* A free-text answer is either one whose {...} substring JSON.parse       *)
(* accepts (kind "json", fields: the numeric fields the object carries) or *)
(* one without such a substring (kind "text", fields: the numbers the      *)
(* regular expressions of the text fallback capture).  "x" and "y" stand   *)
(* for x and y (OpenAI) and for position.x and position.y (Gemini).        *)
(* JSON fields are taken to be numbers when present.                       *)
(***************************************************************************)

\* the objects carrying any subset of the fields of the given full records
Partial(records, fields) ==
    {[f \in S |-> r[f]] : r \in records, S \in SUBSET fields}

JsonValues ==
    [x : {0, 450000},
     y : {0 - 20000, 0, 100000, 600000, 1000000, 5000000},
     scale : {0, 50, 400, 5000},
     confidence : {0, 200, 900, 1500}]

\* \d+ and [\d.]+ capture no sign
TextValues ==
    [x : {0, 450000},
     y : {0, 100000, 600000, 1000000, 5000000},
     scale : {0, 400, 5000}]

JsonAnswers ==
    {[kind |-> "json", fields |-> o] :
        o \in Partial(JsonValues, {"x", "y", "scale", "confidence"})}

TextAnswers ==
    {[kind |-> "text", fields |-> o] :
        o \in Partial(TextValues, {"x", "y", "scale"})}

NoAnswer == [kind |-> "none", fields |-> <<>>]

(***************************************************************************)
(* OpenAI-vision-assisted placement (visionPositioning.ts)                 *)
(***************************************************************************)

getFallbackPositioning(jewelryType, canvasWidth, canvasHeight) ==
    LET centerX == canvasWidth * 500
        centerY == canvasHeight * 500
    IN  CASE jewelryType = "necklace" ->
                [x |-> centerX, y |-> canvasHeight * 550, scale |-> 350,
                 confidence |-> 500, reasoning |-> "fallback"]
          [] jewelryType = "ring" ->
                [x |-> (centerX * 12) \div 10, y |-> (centerY * 11) \div 10,
                 scale |-> 300, confidence |-> 500, reasoning |-> "fallback"]
          [] jewelryType = "earrings" ->
                [x |-> (centerX * 85) \div 100, y |-> canvasHeight * 250,
                 scale |-> 250, confidence |-> 500, reasoning |-> "fallback"]
          [] jewelryType = "bracelet" ->
                [x |-> (centerX * 115) \div 100, y |-> (centerY * 12) \div 10,
                 scale |-> 400, confidence |-> 500, reasoning |-> "fallback"]

\* the try block of parseVisionResponse
parseVisionJson(parsed, canvasWidth, canvasHeight, jewelryType) ==
    LET x == Clamp(50000, (canvasWidth - 50) * 1000,
                   OrElse(parsed, "x", canvasWidth * 500))
        y == Clamp(50000, (canvasHeight - 50) * 1000,
                   OrElse(parsed, "y", canvasHeight * 500))
        scale == Clamp(100, 2000, OrElse(parsed, "scale", 400))
        confidence == Clamp(0, 1000, OrElse(parsed, "confidence", 700))
        \* percentageFromTop = y / canvasHeight against 0.35 and 0.75
        tooHigh == jewelryType = "necklace" /\ y < canvasHeight * 350
        tooLow == jewelryType = "necklace" /\ y > canvasHeight * 750
    IN  [x |-> x,
         y |-> IF tooLow THEN canvasHeight * 600
               ELSE IF tooHigh THEN canvasHeight * 550
               ELSE y,
         scale |-> scale,
         confidence |-> IF tooHigh \/ tooLow
                        THEN Max2(300, confidence - 300)
                        ELSE confidence,
         reasoning |-> "AI-analyzed positioning"]

\* the catch block of parseVisionResponse
parseVisionText(matches, canvasWidth, canvasHeight, jewelryType) ==
    LET x == IF "x" \in DOMAIN matches THEN matches["x"] ELSE canvasWidth * 500
        y0 == IF "y" \in DOMAIN matches THEN matches["y"] ELSE canvasHeight * 500
        scale == IF "scale" \in DOMAIN matches THEN matches["scale"] ELSE 400
        y == IF jewelryType = "necklace"
                /\ (y0 < canvasHeight * 350 \/ y0 > canvasHeight * 750)
             THEN canvasHeight * 550
             ELSE y0
    IN  [x |-> Clamp(50000, (canvasWidth - 50) * 1000, x),
         y |-> Clamp(50000, (canvasHeight - 50) * 1000, y),
         scale |-> Clamp(100, 2000, scale),
         confidence |-> 600,
         reasoning |-> "Parsed from text analysis"]

parseVisionResponse(response, canvasWidth, canvasHeight, jewelryType) ==
    IF response.kind = "json"
    THEN parseVisionJson(response.fields, canvasWidth, canvasHeight, jewelryType)
    ELSE parseVisionText(response.fields, canvasWidth, canvasHeight, jewelryType)

\* what openai.chat.completions.create does: it throws, returns no content,
\* or returns an answer
VisionOutcomes == {"error", "empty", "answer"}

\* analyzeJewelryPositioning, the client taken to be constructible
analyzeJewelryPositioning(jewelryType, canvasWidth, canvasHeight, outcome, response) ==
    IF outcome = "answer"
    THEN parseVisionResponse(response, canvasWidth, canvasHeight, jewelryType)
    ELSE getFallbackPositioning(jewelryType, canvasWidth, canvasHeight)

(***************************************************************************)
(* Gemini-assisted placement (jewelryPositioning.ts)                       *)
(***************************************************************************)

GeminiJsonValues ==
    [x : {0, 600500},
     y : {0, 100000, 600000, 5000000},
     scale : {0, 400, 5000},
     rotation : {0 - 90000, 10000},
     confidence : {0, 900, 1500}]

GeminiTextValues ==
    [x : {0, 600000},
     y : {100000, 5000000},
     scale : {400, 5000},
     rotation : {0 - 90000, 10000},
     confidence : {900, 1500}]

GeminiFields == {"x", "y", "scale", "rotation", "confidence"}

GeminiAnswers ==
    {[kind |-> "json", fields |-> o] : o \in Partial(GeminiJsonValues, GeminiFields)}
    \cup
    {[kind |-> "text", fields |-> o] : o \in Partial(GeminiTextValues, GeminiFields)}

\* a function returning null
Null == [null |-> TRUE]

getDefaultScale(jewelryType) ==
    CASE jewelryType = "necklace" -> 400
      [] jewelryType = "ring" -> 300
      [] jewelryType = "earrings" -> 250
      [] jewelryType = "bracelet" -> 400

\* the canvas getFallbackPosition assumes
FallbackCanvasWidth == 1200

FallbackCanvasHeight == 900

getFallbackPosition(jewelryType) ==
    LET centerX == FallbackCanvasWidth * 500
        centerY == FallbackCanvasHeight * 500
    IN  CASE jewelryType = "necklace" ->
                [x |-> centerX, y |-> (centerY * 6) \div 10, scale |-> 600,
                 rotation |-> 0, confidence |-> 500]
          [] jewelryType = "ring" ->
                [x |-> (centerX * 12) \div 10, y |-> (centerY * 13) \div 10,
                 scale |-> 250, rotation |-> 0, confidence |-> 500]
          [] jewelryType = "earrings" ->
                [x |-> (centerX * 85) \div 100, y |-> (centerY * 5) \div 10,
                 scale |-> 200, rotation |-> 0, confidence |-> 500]
          [] jewelryType = "bracelet" ->
                [x |-> (centerX * 115) \div 100, y |-> (centerY * 14) \div 10,
                 scale |-> 350, rotation |-> 0, confidence |-> 500]

parseTextResponse(matches, jewelryType) ==
    IF "x" \in DOMAIN matches /\ "y" \in DOMAIN matches
    THEN [x |-> matches["x"],
          y |-> matches["y"],
          scale |-> IF "scale" \in DOMAIN matches THEN matches["scale"]
                    ELSE getDefaultScale(jewelryType),
          rotation |-> IF "rotation" \in DOMAIN matches THEN matches["rotation"]
                       ELSE 0,
          confidence |-> IF "confidence" \in DOMAIN matches
                         THEN matches["confidence"] ELSE 700]
    ELSE Null

parseGeminiPositionResponse(response, jewelryType) ==
    IF response.kind = "text"
    THEN parseTextResponse(response.fields, jewelryType)
    ELSE LET parsed == response.fields IN
         IF "x" \in DOMAIN parsed /\ "y" \in DOMAIN parsed
         THEN [x |-> RoundMilli(parsed["x"]),
               y |-> RoundMilli(parsed["y"]),
               scale |-> OrElse(parsed, "scale", getDefaultScale(jewelryType)),
               rotation |-> OrElse(parsed, "rotation", 0),
               confidence |-> OrElse(parsed, "confidence", 800)]
         ELSE Null

\* how the request to Gemini ends: no API key, fetch throws, a non-2xx
\* status, a body without candidate text, or an answer
GeminiOutcomes == {"nokey", "error", "http", "notext", "answer"}

analyzeModelAnatomyWithGemini(jewelryType, outcome, response) ==
    IF outcome = "answer"
    THEN parseGeminiPositionResponse(response, jewelryType)
    ELSE Null

findOptimalJewelryPosition(jewelryType, outcome, response) ==
    LET geminiResult == analyzeModelAnatomyWithGemini(jewelryType, outcome, response)
    IN  IF geminiResult # Null
        THEN geminiResult
        ELSE getFallbackPosition(jewelryType)

(***************************************************************************)
(* Integrity validation (jewelryValidator.ts)                              *)
(*                                                                         *)
(* Pixels are not modelled.  What sharp measures on them (similarity, the  *)
(* colour, shape and texture differences, the channel statistics) and what *)
(* the block detectors find are inputs; everything the validator computes  *)
(* from sizes and from those measurements is computed here.                *)
(***************************************************************************)

\* a region: a rectangle in thousandths of a pixel, with a confidence
Region(px, py, w, h, c) ==
    [x |-> px, y |-> py, width |-> w, height |-> h, confidence |-> c]

\* a block the detectors emit, given in whole pixels
Block(px, py, w, h, c) == Region(px * 1000, py * 1000, w * 1000, h * 1000, c)

\* regionsOverlap: rectangles that only touch overlap too
regionsOverlap(region1, region2) ==
    ~(\/ region1.x + region1.width < region2.x
      \/ region2.x + region2.width < region1.x
      \/ region1.y + region1.height < region2.y
      \/ region2.y + region2.height < region1.y)

RECURSIVE SumConfidence(_, _)
SumConfidence(regions, indices) ==
    IF indices = {}
    THEN 0
    ELSE LET i == CHOOSE k \in indices : TRUE
         IN  regions[i].confidence + SumConfidence(regions, indices \ {i})

\* mergeRegions of the regions at the given indices: the enclosing
\* rectangle and the mean confidence
mergeRegions(regions, indices) ==
    LET minX == SetMin({regions[i].x : i \in indices})
        minY == SetMin({regions[i].y : i \in indices})
        maxX == SetMax({regions[i].x + regions[i].width : i \in indices})
        maxY == SetMax({regions[i].y + regions[i].height : i \in indices})
    IN  [x |-> minX, y |-> minY, width |-> maxX - minX, height |-> maxY - minY,
         confidence |-> SumConfidence(regions, indices) \div Cardinality(indices)]

\* the outer loop of combineRegions from index i on
RECURSIVE combineFrom(_, _, _, _)
combineFrom(regions, i, processed, combined) ==
    IF i > Len(regions)
    THEN combined
    ELSE IF i \in processed
    THEN combineFrom(regions, i + 1, processed, combined)
    ELSE LET overlapping ==
                 {i} \cup {j \in (i + 1)..Len(regions) :
                              /\ j \notin processed
                              /\ regionsOverlap(regions[i], regions[j])}
         IN  IF Cardinality(overlapping) > 1
             THEN combineFrom(regions, i + 1, processed \cup overlapping,
                              Append(combined, mergeRegions(regions, overlapping)))
             ELSE combineFrom(regions, i + 1, processed \cup {i},
                              Append(combined, regions[i]))

combineRegions(regions) == combineFrom(regions, 1, {}, <<>>)

RECURSIVE SqrtBetween(_, _, _)
\* the largest k in lo..hi with k * k <= n
SqrtBetween(n, lo, hi) ==
    IF lo >= hi THEN lo
    ELSE LET mid == (lo + hi + 1) \div 2 IN
         IF mid * mid <= n THEN SqrtBetween(n, mid, hi)
         ELSE SqrtBetween(n, lo, mid - 1)

\* Math.sqrt, to the integer below
ISqrt(n) == SqrtBetween(n, 0, 4000)

\* the score selectBestJewelryRegion gives a region of whole pixels, in
\* thousandths; the distances are doubled so that the centres stay integral
finalScore(region, imageWidth, imageHeight) ==
    LET area == (region.width \div 1000) * (region.height \div 1000)
        imageArea == imageWidth * imageHeight
        bonus == IF area * 20 > imageArea /\ area * 10 < imageArea * 4
                 THEN 200 ELSE 0
        dx == (2 * region.x + region.width) \div 1000 - imageWidth
        dy == (2 * region.y + region.height) \div 1000 - imageHeight
        distanceFromCenter == ISqrt(dx * dx + dy * dy)
        maxDistance == ISqrt(imageWidth * imageWidth + imageHeight * imageHeight)
        centralityScore == 1000 - (distanceFromCenter * 1000) \div maxDistance
    IN  region.confidence + bonus + (centralityScore * 3) \div 10

RECURSIVE BestFrom(_, _, _, _, _)
\* the reduce of selectBestJewelryRegion: a later region wins only with a
\* strictly higher score
BestFrom(regions, i, best, imageWidth, imageHeight) ==
    IF i > Len(regions) THEN best
    ELSE BestFrom(regions, i + 1,
                  IF finalScore(regions[i], imageWidth, imageHeight)
                       > finalScore(best, imageWidth, imageHeight)
                  THEN regions[i] ELSE best,
                  imageWidth, imageHeight)

\* a fallback taken from the top left corner
selectBestFromCorner(regions, imageWidth, imageHeight) ==
    IF Len(regions) = 0
    THEN Region(0, 0, Min2(imageWidth, imageHeight) * 300,
                Min2(imageWidth, imageHeight) * 300, 100)
    ELSE BestFrom(regions, 2, regions[1], imageWidth, imageHeight)

selectBestJewelryRegion(regions, imageWidth, imageHeight) ==
    IF Len(regions) = 0
    THEN LET size == Min2(imageWidth, imageHeight) * 300 IN
         Region((imageWidth * 1000 - size) \div 2,
                (imageHeight * 1000 - size) \div 2, size, size, 100)
    ELSE BestFrom(regions, 2, regions[1], imageWidth, imageHeight)

Rect(l, t, w, h) == [left |-> l, top |-> t, width |-> w, height |-> h]

\* sharp's extract rejects an area that is empty or leaves the image
ValidExtract(rect, width, height) ==
    /\ rect.left >= 0 /\ rect.top >= 0
    /\ rect.width > 0 /\ rect.height > 0
    /\ rect.left + rect.width <= width
    /\ rect.top + rect.height <= height

\* a padded rectangle that is not cut at the right and bottom edges
paddedExtractUncut(bestRegion, width, height) ==
    LET padding == Min2(bestRegion.width, bestRegion.height) \div 10
        extractLeft == Max2(0, bestRegion.x - padding)
        extractTop == Max2(0, bestRegion.y - padding)
    IN  Rect(RoundMilli(extractLeft) \div 1000, RoundMilli(extractTop) \div 1000,
             RoundMilli(bestRegion.width + 2 * padding) \div 1000,
             RoundMilli(bestRegion.height + 2 * padding) \div 1000)

\* the try block of extractJewelryFromComposite: the padded rectangle, in pixels
paddedExtract(bestRegion, width, height) ==
    LET padding == Min2(bestRegion.width, bestRegion.height) \div 10
        extractLeft == Max2(0, bestRegion.x - padding)
        extractTop == Max2(0, bestRegion.y - padding)
        extractWidth == Min2(width * 1000 - extractLeft,
                             bestRegion.width + 2 * padding)
        extractHeight == Min2(height * 1000 - extractTop,
                              bestRegion.height + 2 * padding)
    IN  Rect(RoundMilli(extractLeft) \div 1000, RoundMilli(extractTop) \div 1000,
             RoundMilli(extractWidth) \div 1000, RoundMilli(extractHeight) \div 1000)

\* the catch block of extractJewelryFromComposite: the centre crop
centerCrop(width, height) ==
    LET cropSize == Min2(width, height) * 300 IN
    Rect(RoundMilli((width * 1000 - cropSize) \div 2) \div 1000,
         RoundMilli((height * 1000 - cropSize) \div 2) \div 1000,
         RoundMilli(cropSize) \div 1000, RoundMilli(cropSize) \div 1000)

\* extractJewelryFromComposite: the rectangle cut out of the composite, and
\* whether the function threw.  With no detected region, or a rectangle
\* sharp rejects, the try block throws and the centre crop is taken.
extractJewelryFromComposite(composite, regions) ==
    IF ~composite.decodes
    THEN [threw |-> TRUE, fellBack |-> TRUE, rect |-> Rect(0, 0, 0, 0)]
    ELSE LET padded == paddedExtract(
                 selectBestJewelryRegion(regions, composite.width, composite.height),
                 composite.width, composite.height)
             tryOk == Len(regions) > 0
                      /\ ValidExtract(padded, composite.width, composite.height)
             crop == centerCrop(composite.width, composite.height)
         IN  IF tryOk
             THEN [threw |-> FALSE, fellBack |-> FALSE, rect |-> padded]
             ELSE [threw |-> ~ValidExtract(crop, composite.width, composite.height),
                   fellBack |-> TRUE, rect |-> crop]

\* detectSizeChanges > tolerance: the largest of the relative differences
\* of area, width and height
sizeDeviates(original, extracted, tolerance) ==
    LET originalArea == original.width * original.height
        extractedArea == extracted.width * extracted.height
    IN  \/ Abs(originalArea - extractedArea) * 1000 > tolerance * originalArea
        \/ Abs(original.width - extracted.width) * 1000 > tolerance * original.width
        \/ Abs(original.height - extracted.height) * 1000 > tolerance * original.height

\* detectShapeChanges and detectTextureChanges give 1 when the two greyscale
\* buffers differ in length
lengthsDiffer(original, extracted) ==
    original.width * original.height # extracted.width * extracted.height

\* detectDeviations: the messages, in order; the first sharp call on an
\* undecodable original throws into its catch
detectDeviations(original, extracted, measured, tolerance) ==
    IF ~original.decodes
    THEN <<"Deviation detection failed">>
    ELSE (IF measured.color > tolerance THEN <<"Color deviation detected">> ELSE <<>>)
         \o (IF (IF lengthsDiffer(original, extracted) THEN 1000 ELSE measured.shape)
                  > tolerance
             THEN <<"Shape deviation detected">> ELSE <<>>)
         \o (IF (IF lengthsDiffer(original, extracted) THEN 1000 ELSE measured.texture)
                  > tolerance
             THEN <<"Texture deviation detected">> ELSE <<>>)
         \o (IF sizeDeviates(original, extracted, tolerance)
             THEN <<"Size deviation detected">> ELSE <<>>)

\* performQualityChecks on the extracted region; stdev and mean in units
performQualityChecks(extracted, measured) ==
    (IF measured.stdev < 20 THEN <<"Extracted jewelry appears blurred">> ELSE <<>>)
    \o (IF measured.mean < 30 THEN <<"Extracted jewelry appears too dark">>
        ELSE IF measured.mean > 225 THEN <<"Extracted jewelry appears too bright">>
        ELSE <<>>)
    \o (IF extracted.width < 32 \/ extracted.height < 32
        THEN <<"Extracted jewelry region too small">> ELSE <<>>)

\* calculateSimilarity: 0 from its catch when the original cannot be decoded
calculateSimilarity(original, measured) ==
    IF ~original.decodes THEN 0 ELSE Clamp(0, 1000, measured.similarity)

\* isValid that forgets the deviation list
isValidIgnoringDeviations(similarity, tolerance, allDeviations) ==
    similarity >= 1000 - tolerance

\* the isValid of a completed validation
isValidResult(similarity, tolerance, allDeviations) ==
    similarity >= 1000 - tolerance /\ Len(allDeviations) = 0

validateJewelryIntegrity(original, composite, regions, measured, tolerance) ==
    LET extraction == extractJewelryFromComposite(composite, regions)
        extracted == extraction.rect
        similarity == calculateSimilarity(original, measured)
        allDeviations == detectDeviations(original, extracted, measured, tolerance)
                         \o performQualityChecks(extracted, measured)
    IN  IF extraction.threw
        THEN [isValid |-> FALSE, similarity |-> 0,
              deviations |-> <<"Validation error">>]
        ELSE [isValid |-> isValidResult(similarity, tolerance, allDeviations),
              similarity |-> similarity,
              deviations |-> allDeviations]

(***************************************************************************)
(* Composition (composition.ts)                                            *)
(***************************************************************************)

\* an image buffer: whether sharp can decode it, and its size in pixels
Image(name, ok, w, h) == [id |-> name, decodes |-> ok, width |-> w, height |-> h]

\* segmentedJewelry.cleanedJewelry when it is not there
NoBuffer == [id |-> "missing", decodes |-> FALSE, width |-> 0, height |-> 0]

\* positionOffset when it is not given
NoOffset == [given |-> FALSE, x |-> 0, y |-> 0]

\* the fraction of the model width the jewelry may take, in thousandths
widthFraction(jewelryType) ==
    CASE jewelryType = "necklace" -> 400
      [] jewelryType = "ring" -> 150
      [] jewelryType = "earrings" -> 80
      [] OTHER -> 250

yPositionRatio(jewelryType) ==
    CASE jewelryType = "necklace" -> 350
      [] jewelryType = "ring" -> 600
      [] jewelryType = "earrings" -> 250
      [] OTHER -> 700

Threw == [threw |-> TRUE]

Completed(v) == [threw |-> FALSE, value |-> v]

\* the try block of compositeJewelryOnModel: what it returns, or that it
\* threw.  The placement argument is logged and not otherwise read.
compositeBody(modelImage, cleanedJewelry, placement, positionOffset, jewelryType) ==
    LET targetJewelryWidth ==
            Min2(modelImage.width * widthFraction(jewelryType),
                 cleanedJewelry.width * 1000)
        \* round(jewelry.height * (targetJewelryWidth / jewelry.width))
        targetJewelryHeight ==
            RoundMilli((cleanedJewelry.height * targetJewelryWidth)
                       \div cleanedJewelry.width)
        resizedWidth == RoundMilli(targetJewelryWidth) \div 1000
        resizedHeight == targetJewelryHeight \div 1000
        left0 == RoundMilli((modelImage.width * 1000 - targetJewelryWidth) \div 2)
                 \div 1000
        top0 == RoundMilli(modelImage.height * yPositionRatio(jewelryType))
                \div 1000
        left == IF positionOffset.given THEN left0 + positionOffset.x ELSE left0
        top == IF positionOffset.given THEN top0 + positionOffset.y ELSE top0
    IN  IF ~modelImage.decodes THEN Threw
        ELSE IF cleanedJewelry = NoBuffer THEN Completed(modelImage)
        ELSE IF ~cleanedJewelry.decodes THEN Threw
        \* sharp's resize wants positive integers
        ELSE IF resizedWidth < 1 \/ resizedHeight < 1 THEN Threw
        \* sharp's composite wants an overlay no larger than the base
        ELSE IF resizedWidth > modelImage.width \/ resizedHeight > modelImage.height
        THEN Threw
        ELSE Completed([id |-> "composite", decodes |-> TRUE,
                        width |-> modelImage.width, height |-> modelImage.height,
                        left |-> Max2(0, left), top |-> Max2(0, top),
                        jewelryWidth |-> resizedWidth,
                        jewelryHeight |-> resizedHeight])

\* a catch that rethrows, as the catch of processVirtualTryOn does
compositeRethrowing(modelImage, cleanedJewelry, placement, positionOffset, jewelryType) ==
    LET body == compositeBody(modelImage, cleanedJewelry, placement,
                              positionOffset, jewelryType)
    IN  IF body.threw
        THEN [status |-> "threw", value |-> modelImage]
        ELSE [status |-> "returned", value |-> body.value]

\* compositeJewelryOnModel: the catch returns the model image
compositeJewelryOnModel(modelImage, cleanedJewelry, placement, positionOffset, jewelryType) ==
    LET body == compositeBody(modelImage, cleanedJewelry, placement,
                              positionOffset, jewelryType)
    IN  IF body.threw
        THEN [status |-> "returned", value |-> modelImage]
        ELSE [status |-> "returned", value |-> body.value]

(***************************************************************************)
(* Segmentation (segmentation.ts).  A mask is a byte buffer: its length    *)
(* and the indices of its bytes above 128.                                 *)
(***************************************************************************)

\* the size every raw mask is read at
MaskSide == 1024

\* the jewelry photos segmentJewelry is given: whether sharp decodes them,
\* and their size
SegmentInputs ==
    {[decodes |-> ok, width |-> d[1], height |-> d[2]] :
        ok \in BOOLEAN,
        d \in {<<1024, 1024>>, <<2048, 1536>>, <<500, 400>>}}

SegmentTypes == JewelryTypes \cup {"other"}

\* resize(1024, 1024, {fit: 'inside', withoutEnlargement: true})
preprocess(width, height) ==
    IF width <= MaskSide /\ height <= MaskSide
    THEN [width |-> width, height |-> height]
    ELSE IF width >= height
    THEN [width |-> MaskSide,
          height |-> Max2(1, (2 * height * MaskSide + width) \div (2 * width))]
    ELSE [width |-> Max2(1, (2 * width * MaskSide + height) \div (2 * height)),
          height |-> MaskSide]

Mask(isRaw, len, bytes) == [raw |-> isRaw, length |-> len, on |-> bytes]

\* the pixels a strategy may mark, as (x, y) in the preprocessed image
MarkedPixels(width, height) ==
    {{}, {<<0, 0>>}, {<<100, 1>>}, {<<width - 1, height - 1>>},
     {<<10, 10>>, <<11, 10>>}}

\* segmentRing and segmentNecklace end in .raw().toBuffer(): one byte per
\* pixel of the preprocessed image
RawMasks(width, height) ==
    {Mask(TRUE, width * height, {px[2] * width + px[1] : px \in marked}) :
        marked \in MarkedPixels(width, height)}

\* segmentEarrings, segmentBracelet and segmentGenericJewelry end in
\* .toBuffer(): the bytes of an encoded image
EncodedMasks ==
    {Mask(FALSE, 3000, bytes) : bytes \in {{}, {5}, {1500, 2999}}}

\* what a mask strategy does: it throws, or it returns a mask
StrategyThrew == [threw |-> TRUE]

StrategyOutcomes(jewelryType, width, height) ==
    {StrategyThrew} \cup
    {[threw |-> FALSE, mask |-> m] :
        m \in IF jewelryType \in {"ring", "necklace"}
              THEN RawMasks(width, height)
              ELSE EncodedMasks}

\* applyJewelrySpecificSegmentation: the switch awaits the strategy of the
\* type and has no handler of its own
applyJewelrySpecificSegmentation(jewelryType, outcome) == outcome

\* sharp reading a buffer as raw 1024x1024x1 wants at least that many bytes
ReadsAsRaw(mask) == mask.length >= MaskSide * MaskSide

\* the 3x3 neighbourhood of the marked bytes on the 1024 grid
Dilate(bytes) ==
    {y * MaskSide + x :
        <<x, y>> \in {<<(i % MaskSide) + d[1], (i \div MaskSide) + d[2]>> :
                        i \in bytes, d \in {0 - 1, 0, 1} \X {0 - 1, 0, 1}}
                     \cap ((0 .. MaskSide - 1) \X (0 .. MaskSide - 1))}

\* what convolve and threshold(200) leave of the mask
RefineOutcomes == {"same", "grown", "empty"}

\* refineMask: the catch returns the mask unchanged
refineMask(mask, refined) ==
    IF ~ReadsAsRaw(mask)
    THEN mask
    ELSE Mask(TRUE, MaskSide * MaskSide,
              CASE refined = "same" -> {i \in mask.on : i < MaskSide * MaskSide}
                [] refined = "grown" -> Dilate(mask.on)
                [] OTHER -> {})

\* extractJewelryWithTransparency: the catch returns the original image
extractJewelryWithTransparency(image, mask) ==
    IF ReadsAsRaw(mask) /\ image.width = MaskSide /\ image.height = MaskSide
    THEN [width |-> image.width, height |-> image.height, by |-> "mask"]
    ELSE [width |-> image.width, height |-> image.height, by |-> "original"]

\* removeBackgroundAndCreateTransparency: the pixel rules, and on an error
\* extractJewelryWithTransparency
removeBackgroundAndCreateTransparency(image, mask) ==
    IF ReadsAsRaw(mask)
    THEN [width |-> image.width, height |-> image.height, by |-> "pixel rules"]
    ELSE extractJewelryWithTransparency(image, mask)

\* calculateBoundingBox: the mask is scanned as 1024 x 1024 whatever the
\* size of the image it came from
calculateBoundingBox(mask) ==
    LET width == MaskSide
        height == MaskSide
        white == {i \in mask.on : i < width * height}
        xs == {i % width : i \in white}
        ys == {i \div width : i \in white}
    IN  IF white = {}
        THEN [x |-> width \div 10, y |-> height \div 10,
              width |-> (width * 8) \div 10, height |-> (height * 8) \div 10]
        ELSE [x |-> SetMin(xs), y |-> SetMin(ys),
              width |-> SetMax(xs) - SetMin(xs) + 1,
              height |-> SetMax(ys) - SetMin(ys) + 1]

\* removeJewelryBackground: a cleaned image of the same size, or an error
RemovalOutcomes == {"cleaned", "threw"}

\* the try block of segmentJewelry from the strategy's mask on
segmentBody(preprocessed, mask, refined, removal) ==
    LET refinedMask == refineMask(mask, refined)
        cleanedJewelry ==
            IF removal = "cleaned"
            THEN [width |-> preprocessed.width, height |-> preprocessed.height,
                  by |-> "ai"]
            ELSE removeBackgroundAndCreateTransparency(preprocessed, refinedMask)
    IN  [status |-> "returned",
         value |-> [jewelryMask |-> refinedMask,
                    jewelryImage |-> preprocessed,
                    boundingBox |-> calculateBoundingBox(refinedMask),
                    cleanedJewelry |-> cleanedJewelry]]

SegmentationFailed == [status |-> "threw", value |-> "Segmentation failed"]

\* a segmentJewelry whose background removal has no fallback
segmentWithoutRemovalFallback(inputImage, jewelryType, outcome, refined, removal) ==
    IF ~inputImage.decodes \/ removal = "threw"
    THEN SegmentationFailed
    ELSE LET preprocessed == preprocess(inputImage.width, inputImage.height)
             result == applyJewelrySpecificSegmentation(jewelryType, outcome)
         IN  IF result.threw
             THEN SegmentationFailed
             ELSE segmentBody(preprocessed, result.mask, refined, removal)

\* segmentJewelry: every error of the outer try is rethrown
segmentJewelry(inputImage, jewelryType, outcome, refined, removal) ==
    IF ~inputImage.decodes
    THEN SegmentationFailed
    ELSE LET preprocessed == preprocess(inputImage.width, inputImage.height)
             result == applyJewelrySpecificSegmentation(jewelryType, outcome)
         IN  IF result.threw
             THEN SegmentationFailed
             ELSE segmentBody(preprocessed, result.mask, refined, removal)

(***************************************************************************)
(* The calls                                                               *)
(***************************************************************************)

Idle == [op |-> "none"]

Returned(v) == [status |-> "returned", value |-> v]

\* generateBaseModel before it is called
NotGenerating == [pc |-> "idle"]

\* the try-on requests in flight at one time
Requests == {1, 2}

\* a request slot before processVirtualTryOn is called
NoRequest == [pc |-> "idle"]

\* a component that is not rendered yet
Unmounted == [pc |-> "unmounted"]

Init ==
    /\ call = Idle
    /\ ret = [status |-> "none"]
    /\ req = [r \in Requests |-> NoRequest]
    /\ gen = NotGenerating
    /\ canvas = Unmounted
    /\ preview = Unmounted

EstimateHeuristic ==
    /\ call = Idle
    /\ UNCHANGED <<req, gen, canvas, preview>>
    /\ \E size \in Canvases, jewelryType \in JewelryTypes,
          dimensions \in Dimensions, decodes \in BOOLEAN :
         \E region \in Regions(size[1], size[2]) :
           /\ decodes \/ region = NoRegion
           /\ call' = [op |-> "calculateJewelryPlacement",
                       jewelryType |-> jewelryType, dimensions |-> dimensions,
                       decodes |-> decodes, region |-> region,
                       canvasWidth |-> size[1], canvasHeight |-> size[2]]
           /\ ret' = Returned(calculateJewelryPlacement(
                         jewelryType, dimensions, decodes, region,
                         size[1], size[2]))

EstimateGemini ==
    /\ call = Idle
    /\ UNCHANGED <<req, gen, canvas, preview>>
    /\ \E jewelryType \in JewelryTypes, outcome \in GeminiOutcomes,
          response \in GeminiAnswers \cup {NoAnswer} :
           /\ (outcome = "answer") = (response # NoAnswer)
           /\ call' = [op |-> "findOptimalJewelryPosition",
                       jewelryType |-> jewelryType, outcome |-> outcome,
                       response |-> response,
                       canvasWidth |-> FallbackCanvasWidth,
                       canvasHeight |-> FallbackCanvasHeight]
           /\ ret' = Returned(findOptimalJewelryPosition(jewelryType, outcome, response))

EstimateVision ==
    /\ call = Idle
    /\ UNCHANGED <<req, gen, canvas, preview>>
    /\ \E size \in Canvases, jewelryType \in JewelryTypes,
          outcome \in VisionOutcomes,
          response \in JsonAnswers \cup TextAnswers \cup {NoAnswer} :
           /\ (outcome = "answer") = (response # NoAnswer)
           /\ call' = [op |-> "analyzeJewelryPositioning",
                       jewelryType |-> jewelryType, outcome |-> outcome,
                       response |-> response,
                       canvasWidth |-> size[1], canvasHeight |-> size[2]]
           /\ ret' = Returned(analyzeJewelryPositioning(
                         jewelryType, size[1], size[2], outcome, response))

\* the images validateJewelryIntegrity is given
Originals ==
    {Image("jewelry", ok, d[1], d[2]) :
        ok \in BOOLEAN, d \in {<<38, 38>>, <<100, 100>>, <<270, 270>>}}

Composites ==
    {Image("composite", ok, 1200, 900) : ok \in BOOLEAN}

\* what detectJewelryRegions returns: up to MaxCandidates merged blocks
MaxCandidates == 2

CandidateRegions ==
    {Block(592, 304, 32, 32, 600), Block(544, 304, 112, 112, 500),
     Block(0, 0, 24, 24, 900), Block(1152, 864, 32, 32, 450)}

CandidateLists ==
    UNION {[1..n -> CandidateRegions] : n \in 0..MaxCandidates}

\* what sharp measures: the blended similarity, the three pixel
\* differences (thousandths), and the extract's mean stdev and mean level
Measurements ==
    [similarity : {400, 985, 1000}, color : {0, 50}, shape : {0, 50},
     texture : {0, 50}, stdev : {10, 60}, mean : {20, 128, 240}]

Tolerances == {20}

Validate ==
    /\ call = Idle
    /\ UNCHANGED <<req, gen, canvas, preview>>
    /\ \E original \in Originals, composite \in Composites,
          regions \in CandidateLists, measured \in Measurements,
          tolerance \in Tolerances, embedded \in BOOLEAN :
           \* an extract that is the unmodified original measures as identical
           /\ embedded =>
                 /\ original.decodes /\ composite.decodes
                 /\ measured.similarity = 1000 /\ measured.color = 0
                 /\ measured.shape = 0 /\ measured.texture = 0
           /\ call' = [op |-> "validateJewelryIntegrity", original |-> original,
                       composite |-> composite, regions |-> regions,
                       measured |-> measured, tolerance |-> tolerance,
                       embedded |-> embedded]
           /\ ret' = Returned(validateJewelryIntegrity(
                         original, composite, regions, measured, tolerance))

\* the arguments compositeJewelryOnModel is given
ModelImages ==
    {Image("model", ok, c[1], c[2]) : ok \in BOOLEAN, c \in Canvases}

CleanedJewelry ==
    {NoBuffer} \cup
    {Image("cleaned", ok, d[1], d[2]) :
        ok \in BOOLEAN,
        d \in {<<100, 100>>, <<1000, 40>>, <<10, 5000>>, <<2000, 1>>}}

Placements ==
    {[x |-> 500, y |-> 500, scale |-> 1000, rotation |-> 0],
     [x |-> 600000, y |-> 315000, scale |-> 400, rotation |-> 15000]}

Offsets ==
    {NoOffset} \cup
    {[given |-> TRUE, x |-> o[1], y |-> o[2]] : o \in {<<0, 0>>, <<0 - 700, 25>>}}

Composite ==
    /\ call = Idle
    /\ UNCHANGED <<req, gen, canvas, preview>>
    /\ \E modelImage \in ModelImages, cleanedJewelry \in CleanedJewelry,
          placement \in Placements, positionOffset \in Offsets,
          jewelryType \in JewelryTypes \cup {"undefined"} :
           /\ call' = [op |-> "compositeJewelryOnModel", modelImage |-> modelImage,
                       cleanedJewelry |-> cleanedJewelry, placement |-> placement,
                       positionOffset |-> positionOffset, jewelryType |-> jewelryType]
           /\ ret' = compositeJewelryOnModel(modelImage, cleanedJewelry, placement,
                                             positionOffset, jewelryType)

\* a call of segmentJewelry
Segment ==
    /\ call = Idle
    /\ UNCHANGED <<req, gen, canvas, preview>>
    /\ \E inputImage \in SegmentInputs, jewelryType \in SegmentTypes,
          refined \in RefineOutcomes, removal \in RemovalOutcomes :
        \E outcome \in StrategyOutcomes(jewelryType,
                           preprocess(inputImage.width, inputImage.height).width,
                           preprocess(inputImage.width, inputImage.height).height) :
           /\ call' = [op |-> "segmentJewelry", inputImage |-> inputImage,
                       jewelryType |-> jewelryType, outcome |-> outcome,
                       refined |-> refined, removal |-> removal]
           /\ ret' = segmentJewelry(inputImage, jewelryType, outcome, refined,
                                    removal)

\* the lists combineRegions is given: detector blocks of 32 pixels
MaxBlocks == 3

DetectorBlocks ==
    {Block(0, 0, 32, 32, 600), Block(16, 0, 32, 32, 900),
     Block(48, 0, 32, 32, 500), Block(96, 0, 32, 32, 700),
     Block(48, 48, 32, 32, 400)}

BlockLists == UNION {[1..n -> DetectorBlocks] : n \in 0..MaxBlocks}

\* a call of combineRegions
Combine ==
    /\ call = Idle
    /\ UNCHANGED <<req, gen, canvas, preview>>
    /\ \E regions \in BlockLists :
           /\ call' = [op |-> "combineRegions", regions |-> regions]
           /\ ret' = Returned(combineRegions(regions))

\* the image sizes selectBestJewelryRegion is given
ImageSizes == {<<1200, 900>>, <<900, 1200>>, <<500, 400>>, <<33, 777>>, <<1, 1>>}

\* a call of selectBestJewelryRegion
SelectBest ==
    /\ call = Idle
    /\ UNCHANGED <<req, gen, canvas, preview>>
    /\ \E regions \in CandidateLists, size \in ImageSizes :
           /\ call' = [op |-> "selectBestJewelryRegion", regions |-> regions,
                       imageWidth |-> size[1], imageHeight |-> size[2]]
           /\ ret' = Returned(selectBestJewelryRegion(regions, size[1], size[2]))

\* the four pixels floodFill pushes after marking (x, y)
neighboursWithDiagonals(x, y) ==
    <<<<x + 1, y>>, <<x - 1, y>>, <<x, y + 1>>, <<x, y - 1>>,
      <<x + 1, y + 1>>, <<x - 1, y - 1>>, <<x - 1, y + 1>>, <<x + 1, y - 1>>>>

neighbours(x, y) == <<<<x + 1, y>>, <<x - 1, y>>, <<x, y + 1>>, <<x, y - 1>>>>

\* the while loop of floodFill: mask is the set of indices that are true,
\* visited the indices marked so far, in the order they were marked
RECURSIVE floodFillLoop(_, _, _, _, _, _)
floodFillLoop(mask, visited, stack, region, width, height) ==
    IF stack = <<>>
    THEN [region |-> region, visited |-> visited]
    ELSE LET x == stack[Len(stack)][1]
             y == stack[Len(stack)][2]
             index == y * width + x
             rest == SubSeq(stack, 1, Len(stack) - 1)
         IN  IF \/ x < 0 \/ x >= width \/ y < 0 \/ y >= height
                \/ \E i \in 1..Len(visited) : visited[i] = index
                \/ index \notin mask
             THEN floodFillLoop(mask, visited, rest, region, width, height)
             ELSE floodFillLoop(mask, Append(visited, index),
                                rest \o neighbours(x, y),
                                [left |-> Min2(region.left, x),
                                 right |-> Max2(region.right, x),
                                 top |-> Min2(region.top, y),
                                 bottom |-> Max2(region.bottom, y),
                                 area |-> region.area + 1,
                                 sumX |-> region.sumX + x,
                                 sumY |-> region.sumY + y],
                                width, height)

\* floodFill: the region and the updated visited array; the centre is in
\* thousandths of a pixel
floodFill(mask, visited, startX, startY, width, height) ==
    LET filled == floodFillLoop(mask, visited, <<<<startX, startY>>>>,
                                [left |-> startX, right |-> startX,
                                 top |-> startY, bottom |-> startY,
                                 area |-> 0, sumX |-> 0, sumY |-> 0],
                                width, height)
        region == filled.region
    IN  [region |-> [left |-> region.left, right |-> region.right,
                     top |-> region.top, bottom |-> region.bottom,
                     centerX |-> (2000 * region.sumX + region.area) \div (2 * region.area),
                     centerY |-> (2000 * region.sumY + region.area) \div (2 * region.area),
                     area |-> region.area],
         visited |-> filled.visited]

\* the two for loops of findLargestRegion, from pixel index on
RECURSIVE scanFrom(_, _, _, _, _, _, _)
scanFrom(index, mask, visited, largestRegion, maxArea, width, height) ==
    IF index >= width * height
    THEN [region |-> largestRegion, visited |-> visited]
    ELSE IF index \in mask /\ ~\E i \in 1..Len(visited) : visited[i] = index
    THEN LET filled == floodFill(mask, visited, index % width,
                                 index \div width, width, height)
         IN  IF filled.region.area > maxArea
             THEN scanFrom(index + 1, mask, filled.visited, filled.region,
                           filled.region.area, width, height)
             ELSE scanFrom(index + 1, mask, filled.visited, largestRegion,
                           maxArea, width, height)
    ELSE scanFrom(index + 1, mask, visited, largestRegion, maxArea, width,
                  height)

\* findLargestRegion, with the marks it made in the visited array
findLargestRegion(mask, width, height) ==
    scanFrom(0, mask, <<>>, Null, 0, width, height)

\* the boolean masks findLargestRegion is given
GridSizes == {<<3, 3>>, <<4, 2>>}

\* a call of findLargestRegion
FindLargest ==
    /\ call = Idle
    /\ UNCHANGED <<req, gen, canvas, preview>>
    /\ \E size \in GridSizes :
        \E mask \in SUBSET (0..(size[1] * size[2] - 1)) :
           /\ call' = [op |-> "findLargestRegion", mask |-> mask,
                       width |-> size[1], height |-> size[2]]
           /\ ret' = LET found == findLargestRegion(mask, size[1], size[2])
                     IN  [status |-> "returned", value |-> found.region,
                          visited |-> found.visited]

\* the blocks the three detectors can emit on a width x height image:
\* <<blockSize, step, a confidence above the detector's threshold>>
Detectors == {<<32, 16, 500>>, <<24, 12, 600>>, <<28, 14, 400>>}

detectorBlocks(width, height) ==
    UNION {{Block(x, y, d[1], d[1], d[3]) :
               x \in {k \in 0..(width - d[1] - 1) : k % d[2] = 0},
               y \in {k \in 0..(height - d[1] - 1) : k % d[2] = 0}} :
           d \in Detectors}

\* regions sorted by descending confidence, equal confidences in their order
RECURSIVE sortByConfidence(_)
sortByConfidence(regions) ==
    IF regions = <<>>
    THEN <<>>
    ELSE LET first == CHOOSE i \in 1..Len(regions) :
                 \A j \in 1..Len(regions) :
                    \/ regions[j].confidence < regions[i].confidence
                    \/ regions[j].confidence = regions[i].confidence /\ j >= i
         IN  <<regions[first]>> \o
             sortByConfidence([j \in 1..(Len(regions) - 1) |->
                                  IF j < first THEN regions[j] ELSE regions[j + 1]])

\* detectJewelryRegions on the blocks of the three detectors: combined,
\* filtered, ranked, the top five
detectJewelryRegions(blocks) ==
    LET combined == combineRegions(blocks)
        IsCandidate(region) == region.confidence > 300
        ranked == sortByConfidence(SelectSeq(combined, IsCandidate))
    IN  SubSeq(ranked, 1, Min2(5, Len(ranked)))

\* the composites whose regions are extracted
CompositeSizes == {<<61, 49>>, <<64, 48>>, <<45, 90>>}

\* the blocks the detectors emit on one composite
MaxDetected == 2

\* a call of extractJewelryFromComposite on a decodable composite
Extract ==
    /\ call = Idle
    /\ UNCHANGED <<req, gen, canvas, preview>>
    /\ \E size \in CompositeSizes :
        \E blocks \in UNION {[1..n -> detectorBlocks(size[1], size[2])] :
                                n \in 0..MaxDetected} :
           /\ call' = [op |-> "extractJewelryFromComposite",
                       width |-> size[1], height |-> size[2],
                       regions |-> detectJewelryRegions(blocks)]
           /\ ret' = Returned(extractJewelryFromComposite(
                         [decodes |-> TRUE, width |-> size[1],
                          height |-> size[2]],
                         detectJewelryRegions(blocks)))

\* the caller takes the result; the next call starts from scratch
Finish ==
    /\ call # Idle
    /\ call' = Idle
    /\ ret' = [status |-> "none"]
    /\ UNCHANGED <<req, gen, canvas, preview>>

Next ==
    \/ Finish
    \/ EstimateHeuristic
    \/ EstimateGemini
    \/ EstimateVision
    \/ Validate
    \/ Composite
    \/ Segment
    \/ Combine
    \/ Extract
    \/ FindLargest
    \/ SelectBest

Spec == Init /\ [][Next]_vars

(***************************************************************************)
(* processVirtualTryOn: one run per request, a step at each await          *)
(***************************************************************************)

\* the requests: VirtualTryOnServiceRequest
TryOnRequests ==
    [jewelryImageBuffer : {Image("jewelry", TRUE, 270, 270)},
     jewelryType : {"necklace", "ring"},
     dimensions : {[given |-> TRUE, width |-> 18, height |-> 17]},
     customModelBuffer : {NoBuffer, Image("model", TRUE, 1200, 900),
                          Image("model", FALSE, 1200, 900)},
     positionOffset : {NoOffset}]

\* what the services and the pixels answer during one request
TryOnAnswers ==
    [removal : RemovalOutcomes,
     generation : {"image", "threw"},
     region : {NoRegion},
     regions : {<<>>, <<Block(592, 304, 32, 32, 600)>>},
     measured : {[similarity |-> 985, color |-> 0, shape |-> 0, texture |-> 0,
                  stdev |-> 60, mean |-> 128],
                 [similarity |-> 400, color |-> 50, shape |-> 0, texture |-> 0,
                  stdev |-> 60, mean |-> 128]}]

\* the names pushed on processingSteps, in the order of the source
StepNames ==
    <<"jewelry_background_removal", "clean_model_generation",
      "ai_placement_calculation", "jewelry_composition", "validation",
      "final_processing">>

LastStage == Len(StepNames)

\* a stage that puts composition before placement
nextStageComposingFirst(stage) ==
    CASE stage = 2 -> 4
      [] stage = 4 -> 3
      [] stage = 3 -> 5
      [] OTHER -> stage + 1

\* the statement after a stage is the next stage
nextStage(stage) == stage + 1

\* a validation check that throws on an invalid result
validationThrows(validationResult) == ~validationResult.isValid

\* what follows validateJewelryIntegrity: a warning is logged, nothing is
\* thrown
validationAborts(validationResult) == FALSE

\* a step list that all requests write to
pushToSharedSteps(rq, r, step) ==
    [q \in DOMAIN rq |->
        IF "processingSteps" \in DOMAIN rq[q]
        THEN [rq[q] EXCEPT !.processingSteps = Append(@, step)]
        ELSE rq[q]]

\* processingSteps.push(step) on the list of request r
pushStep(rq, r, step) == [rq EXCEPT ![r].processingSteps = Append(@, step)]

\* the locals of a run at its start
NewRun(request, answers) ==
    [pc |-> "ready", stage |-> 1, request |-> request, answers |-> answers,
     processingSteps |-> <<>>, cleanJewelryBuffer |-> Null, modelBuffer |-> Null,
     placementData |-> Null, compositeResult |-> Null,
     validationResult |-> Null, result |-> Null]

\* the awaited operation of a stage: the locals after it, or that it threw
stageOperation(stage, run) ==
    CASE stage = 1 ->
            IF run.answers.removal = "threw"
            THEN Threw
            ELSE Completed([run EXCEPT !.cleanJewelryBuffer =
                     Image("cleaned", TRUE, run.request.jewelryImageBuffer.width,
                           run.request.jewelryImageBuffer.height)])
      [] stage = 2 ->
            IF run.request.customModelBuffer # NoBuffer
            THEN Completed([run EXCEPT !.modelBuffer =
                                           run.request.customModelBuffer])
            ELSE IF run.answers.generation = "threw"
            THEN Threw
            ELSE Completed([run EXCEPT !.modelBuffer =
                                           Image("model", TRUE, 1200, 900)])
      [] stage = 3 ->
            Completed([run EXCEPT !.placementData =
                calculateJewelryPlacement(
                    run.request.jewelryType, run.request.dimensions,
                    run.modelBuffer.decodes,
                    IF run.modelBuffer.decodes THEN run.answers.region
                                               ELSE NoRegion,
                    run.modelBuffer.width, run.modelBuffer.height)])
      [] stage = 4 ->
            Completed([run EXCEPT !.compositeResult =
                compositeJewelryOnModel(
                    run.modelBuffer, run.cleanJewelryBuffer, run.placementData,
                    run.request.positionOffset, run.request.jewelryType).value])
      [] stage = 5 ->
            LET validationResult ==
                    validateJewelryIntegrity(
                        run.request.jewelryImageBuffer, run.compositeResult,
                        run.answers.regions, run.answers.measured, 20)
            IN  IF validationAborts(validationResult)
                THEN Threw
                ELSE Completed([run EXCEPT !.validationResult = validationResult])
      [] OTHER ->
            \* sharp(compositeResult).png().toBuffer()
            IF ~run.compositeResult.decodes
            THEN Threw
            ELSE Completed([run EXCEPT !.result =
                    [imageBuffer |-> run.compositeResult,
                     metadata |->
                        [processingSteps |-> run.processingSteps,
                         jewelryDimensions |-> run.request.dimensions,
                         confidence |-> run.validationResult.similarity]]])

\* processVirtualTryOn run from its first statement to its last with
\* nothing else running
RECURSIVE runFrom(_)
runFrom(run) ==
    LET pushed == [run EXCEPT !.processingSteps =
                                 Append(@, StepNames[run.stage])]
        settled == stageOperation(run.stage, pushed)
    IN  IF settled.threw
        THEN [pushed EXCEPT !.pc = "failed"]
        ELSE IF run.stage = LastStage
        THEN [settled.value EXCEPT !.pc = "done"]
        ELSE runFrom([settled.value EXCEPT !.stage = nextStage(run.stage)])

processVirtualTryOn(request, answers) == runFrom(NewRun(request, answers))

\* processVirtualTryOn(request) is called for slot r
StartRequest(r) ==
    /\ req[r].pc = "idle"
    /\ \E request \in TryOnRequests, answers \in TryOnAnswers :
           req' = [req EXCEPT ![r] = NewRun(request, answers)]
    /\ UNCHANGED <<call, ret, gen, canvas, preview>>

\* a stage begins: its name is pushed and its operation is awaited
BeginStage(r) ==
    /\ req[r].pc = "ready"
    /\ req' = [pushStep(req, r, StepNames[req[r].stage]) EXCEPT
                  ![r].pc = "awaiting"]
    /\ UNCHANGED <<call, ret, gen, canvas, preview>>

\* the awaited operation settles: the catch rethrows, the last stage
\* returns, any other goes on to the next
EndStage(r) ==
    /\ req[r].pc = "awaiting"
    /\ LET settled == stageOperation(req[r].stage, req[r])
       IN  req' = [req EXCEPT ![r] =
                IF settled.threw
                THEN [req[r] EXCEPT !.pc = "failed"]
                ELSE IF req[r].stage = LastStage
                THEN [settled.value EXCEPT !.pc = "done"]
                ELSE [settled.value EXCEPT !.pc = "ready",
                                           !.stage = nextStage(req[r].stage)]]
    /\ UNCHANGED <<call, ret, gen, canvas, preview>>

NextTryOn ==
    \E r \in Requests :
        \/ StartRequest(r)
        \/ BeginStage(r)
        \/ EndStage(r)

SpecTryOn == Init /\ [][NextTryOn]_vars

(***************************************************************************)
(* generateBaseModel: the retry loop, a step at each await                 *)
(***************************************************************************)

maxRetries == 3

\* the delay of the catch block, in milliseconds
RetryDelay == 1000

\* the service calls after which the model stops counting
MaxServiceCalls == 5

\* ModelGenerationParams
GenerationParams ==
    [pose : {"hand-extended", "neck-visible", "ear-visible"},
     demographics : {"adult_female", "adult_male"}]

selectModelService(params) ==
    IF params.pose = "hand-extended" THEN "flux-kontext" ELSE "gpt-image-1"

\* what validateModelHasNoJewelry answers: it resolves, or its client
\* cannot be constructed and it throws
JewelryChecks ==
    {[threw |-> TRUE]} \cup
    {[threw |-> FALSE, hasJewelry |-> h, confidence |-> c] :
        h \in BOOLEAN, c \in {200, 500, 800}}

\* an attempt that is not counted
attemptNotCounted(attempt) == attempt

\* attempt++
nextAttempt(attempt) == attempt + 1

\* the loop condition: while (attempt < maxRetries)
mayAttempt(attempt) == attempt < maxRetries

\* generateBaseModel(params) is called
CallGenerate ==
    /\ gen.pc = "idle"
    /\ \E params \in GenerationParams :
           gen' = [pc |-> "loop", params |-> params, attempt |-> 0,
                   serviceCalls |-> 0, service |-> selectModelService(params),
                   retrying |-> "no", waited |-> 0, result |-> "none",
                   flagged |-> FALSE]
    /\ UNCHANGED <<call, ret, req, canvas, preview>>

\* the loop test and attempt++; after the loop the function throws
LoopTest ==
    /\ gen.pc = "loop"
    /\ gen' = IF mayAttempt(gen.attempt)
              THEN [gen EXCEPT !.pc = "service",
                               !.attempt = nextAttempt(gen.attempt)]
              ELSE [gen EXCEPT !.pc = "failed",
                               !.result = "maximum retries exceeded"]
    /\ UNCHANGED <<call, ret, req, canvas, preview>>

\* callModelService resolves with an image or rejects
ServiceAnswers ==
    /\ gen.pc = "service"
    /\ gen.serviceCalls < MaxServiceCalls
    /\ \E answer \in {"image", "threw"} :
           gen' = [gen EXCEPT !.serviceCalls = @ + 1,
                              !.pc = IF answer = "image" THEN "check"
                                                         ELSE "caught"]
    /\ UNCHANGED <<call, ret, req, canvas, preview>>

\* the checker flags the image: hasJewelry with confidence above 0.5
isFlagged(check) == check.hasJewelry /\ check.confidence > 500

\* a flagged image that is never retried
neverRetryFlagged(attempt) == FALSE

\* a flagged image is retried while attempts remain
retryFlagged(attempt) == attempt < maxRetries

\* validateModelHasNoJewelry settles: jewelry found with confidence above
\* 0.5 continues the loop while attempts remain, anything else returns
CheckAnswers ==
    /\ gen.pc = "check"
    /\ \E check \in JewelryChecks :
           gen' = IF check.threw
                  THEN [gen EXCEPT !.pc = "caught"]
                  ELSE IF isFlagged(check) /\ retryFlagged(gen.attempt)
                  THEN [gen EXCEPT !.pc = "loop", !.retrying = "jewelry",
                                   !.waited = 0]
                  ELSE [gen EXCEPT !.pc = "done", !.result = "image",
                                   !.flagged = isFlagged(check)]
    /\ UNCHANGED <<call, ret, req, canvas, preview>>

\* the catch block: throw after the last attempt, else start the timer
Caught ==
    /\ gen.pc = "caught"
    /\ gen' = IF gen.attempt >= maxRetries
              THEN [gen EXCEPT !.pc = "failed",
                               !.result = "failed after maxRetries attempts"]
              ELSE [gen EXCEPT !.pc = "waiting", !.retrying = "error",
                               !.waited = 0]
    /\ UNCHANGED <<call, ret, req, canvas, preview>>

\* the timer of the catch block fires
DelayElapsed ==
    /\ gen.pc = "waiting"
    /\ gen' = [gen EXCEPT !.pc = "loop", !.waited = RetryDelay]
    /\ UNCHANGED <<call, ret, req, canvas, preview>>

NextGenerate ==
    \/ CallGenerate
    \/ LoopTest
    \/ ServiceAnswers
    \/ CheckAnswers
    \/ Caught
    \/ DelayElapsed

\* every awaited promise settles and the timer fires
SpecGenerate == Init /\ [][NextGenerate]_vars /\ WF_vars(NextGenerate)

(***************************************************************************)
(* RealTimeDraggableJewelry: the interactive positioning canvas.  Positions *)
(* and pointer coordinates are whole canvas pixels, the rotation is in      *)
(* whole degrees, scales are in thousandths.  The state is the component's *)
(* React state after the last event; event is the last event handled.      *)
(***************************************************************************)

CanvasSize == [width |-> 1200, height |-> 900]

\* naturalWidth and naturalHeight of the jewelry image
JewelryNaturalSize == [width |-> 400, height |-> 300]

CanvasTypes == {"necklace", "ring"}

\* the switch on jewelryType of the mount effect and of resetPosition
defaultPosition(jewelryType) ==
    LET centerX == CanvasSize.width \div 2
        centerY == CanvasSize.height \div 2
    IN  CASE jewelryType = "necklace" -> [x |-> centerX, y |-> (centerY * 6) \div 10]
          [] jewelryType = "ring" ->
                [x |-> (centerX * 12) \div 10, y |-> (centerY * 13) \div 10]
          [] jewelryType = "earrings" ->
                [x |-> (centerX * 85) \div 100, y |-> (centerY * 5) \div 10]
          [] jewelryType = "bracelet" ->
                [x |-> (centerX * 115) \div 100, y |-> (centerY * 14) \div 10]
          [] OTHER -> [x |-> centerX, y |-> centerY]

defaultScale(jewelryType) ==
    CASE jewelryType = "necklace" -> [width |-> 600, height |-> 600]
      [] jewelryType = "ring" -> [width |-> 250, height |-> 250]
      [] jewelryType = "earrings" -> [width |-> 200, height |-> 200]
      [] jewelryType = "bracelet" -> [width |-> 350, height |-> 350]
      [] OTHER -> [width |-> 400, height |-> 400]

NoAdjustments == [scaleX |-> 1000, scaleY |-> 1000]

NoEvent == [kind |-> "none", hit |-> FALSE]

\* the useState initial values, then the mount effect
mounted(jewelryType) ==
    [pc |-> "mounted", jewelryType |-> jewelryType,
     jewelryPosition |-> defaultPosition(jewelryType),
     jewelryScale |-> defaultScale(jewelryType),
     jewelryRotation |-> 0,
     jewelryAdjustments |-> NoAdjustments,
     isDragging |-> FALSE,
     dragStart |-> [x |-> 0, y |-> 0],
     isAnalyzing |-> FALSE,
     event |-> NoEvent]

\* halfWidth and halfHeight of the hit area, in thousandths of a pixel
halfWidth(c) ==
    (((JewelryNaturalSize.width * c.jewelryScale.width) \div 2)
        * c.jewelryAdjustments.scaleX) \div 1000 + 30000

halfHeight(c) ==
    (((JewelryNaturalSize.height * c.jewelryScale.height) \div 2)
        * c.jewelryAdjustments.scaleY) \div 1000 + 30000

\* the bounds test on the inversely rotated click.  It is computed for the
\* rotations whose sine and cosine are 0 or 1; for the others a click whose
\* distance from the centre is within the shorter half side is a hit, one
\* farther than the two half sides together is a miss, and any other click
\* may be either.
hitOutcomes(c, x, y) ==
    LET relativeX == 1000 * Abs(x - c.jewelryPosition.x)
        relativeY == 1000 * Abs(y - c.jewelryPosition.y)
        turn == Abs(c.jewelryRotation) % 180
    IN  IF turn = 0
        THEN {relativeX <= halfWidth(c) /\ relativeY <= halfHeight(c)}
        ELSE IF turn = 90
        THEN {relativeY <= halfWidth(c) /\ relativeX <= halfHeight(c)}
        ELSE IF relativeX + relativeY <= Min2(halfWidth(c), halfHeight(c))
        THEN {TRUE}
        ELSE IF Max2(relativeX, relativeY) > halfWidth(c) + halfHeight(c)
        THEN {FALSE}
        ELSE BOOLEAN

startDrag(c, x, y) ==
    [c EXCEPT !.isDragging = TRUE,
              !.dragStart = [x |-> x - c.jewelryPosition.x,
                             y |-> y - c.jewelryPosition.y]]

dragTo(c, x, y) ==
    [c EXCEPT !.jewelryPosition =
        [x |-> Clamp(50, CanvasSize.width - 50, x - c.dragStart.x),
         y |-> Clamp(50, CanvasSize.height - 50, y - c.dragStart.y)]]

handleMouseDown(c, x, y, hit) == IF hit THEN startDrag(c, x, y) ELSE c

\* a handler that moves the jewelry on every pointer-move
handleMouseMoveAlways(c, x, y) == dragTo(c, x, y)

handleMouseMove(c, x, y) == IF ~c.isDragging THEN c ELSE dragTo(c, x, y)

handleMouseUp(c) == [c EXCEPT !.isDragging = FALSE]

handleTouchStart(c, touches, x, y, hit) ==
    IF touches # 1 THEN c ELSE IF hit THEN startDrag(c, x, y) ELSE c

handleTouchMove(c, touches, x, y) ==
    IF ~c.isDragging \/ touches # 1 THEN c ELSE dragTo(c, x, y)

handleTouchEnd(c) == [c EXCEPT !.isDragging = FALSE]

resetPosition(c) ==
    [c EXCEPT !.jewelryPosition = defaultPosition(c.jewelryType),
              !.jewelryScale = defaultScale(c.jewelryType),
              !.jewelryRotation = 0,
              !.jewelryAdjustments = NoAdjustments]

\* what the positioning API answers: no usable positioning, or a positioning
\* (rotation 0 also stands for a missing rotation)
NoPositioning == [success |-> FALSE]

SmartAnswers ==
    {NoPositioning,
     [success |-> TRUE, x |-> 600, y |-> 270, scale |-> 600, rotation |-> 0,
      adjustments |-> Null],
     [success |-> TRUE, x |-> 2000, y |-> 0 - 10, scale |-> 5000,
      rotation |-> 60, adjustments |-> [scaleX |-> 2000, scaleY |-> 0]]}

\* the body of findOptimalPosition after the fetch
applyPositioning(c, answer) ==
    IF ~answer.success
    THEN [c EXCEPT !.isAnalyzing = FALSE]
    ELSE LET scale == Clamp(100, 2000, answer.scale)
         IN  [c EXCEPT
                !.jewelryPosition = [x |-> Clamp(50, 1150, answer.x),
                                     y |-> Clamp(50, 850, answer.y)],
                !.jewelryScale = [width |-> scale, height |-> scale],
                !.jewelryRotation = Clamp(0 - 45, 45, answer.rotation),
                !.jewelryAdjustments =
                    IF answer.adjustments = Null
                    THEN c.jewelryAdjustments
                    ELSE [scaleX |-> Clamp(500, 1500,
                              OrElse(answer.adjustments, "scaleX", 1000)),
                          scaleY |-> Clamp(500, 1500,
                              OrElse(answer.adjustments, "scaleY", 1000))],
                !.isAnalyzing = FALSE]

\* where the pointer goes down, moves and goes up
CanvasPointers == {<<620, 280>>, <<1170, 280>>, <<620, 860>>}

\* the rotation buttons are followed this far from zero
MaxRotation == 105

Mounted == canvas.pc = "mounted"

Handled(c, kind, hit) == [c EXCEPT !.event = [kind |-> kind, hit |-> hit]]

Mount ==
    /\ canvas = Unmounted
    /\ \E jewelryType \in CanvasTypes : canvas' = mounted(jewelryType)
    /\ UNCHANGED <<call, ret, req, gen, preview>>

MouseDown ==
    /\ Mounted
    /\ \E p \in CanvasPointers :
        \E hit \in hitOutcomes(canvas, p[1], p[2]) :
           canvas' = Handled(handleMouseDown(canvas, p[1], p[2], hit),
                             "mousedown", hit)
    /\ UNCHANGED <<call, ret, req, gen, preview>>

MouseMove ==
    /\ Mounted
    /\ \E p \in CanvasPointers :
           canvas' = Handled(handleMouseMove(canvas, p[1], p[2]),
                             "mousemove", FALSE)
    /\ UNCHANGED <<call, ret, req, gen, preview>>

MouseUp ==
    /\ Mounted
    /\ canvas' = Handled(handleMouseUp(canvas), "mouseup", FALSE)
    /\ UNCHANGED <<call, ret, req, gen, preview>>

TouchStart ==
    /\ Mounted
    /\ \E p \in CanvasPointers, touches \in {1, 2} :
        \E hit \in hitOutcomes(canvas, p[1], p[2]) :
           canvas' = Handled(handleTouchStart(canvas, touches, p[1], p[2], hit),
                             "touchstart", hit /\ touches = 1)
    /\ UNCHANGED <<call, ret, req, gen, preview>>

TouchMove ==
    /\ Mounted
    /\ \E p \in CanvasPointers, touches \in {1, 2} :
           canvas' = Handled(handleTouchMove(canvas, touches, p[1], p[2]),
                             "touchmove", FALSE)
    /\ UNCHANGED <<call, ret, req, gen, preview>>

TouchEnd ==
    /\ Mounted
    /\ canvas' = Handled(handleTouchEnd(canvas), "touchend", FALSE)
    /\ UNCHANGED <<call, ret, req, gen, preview>>

\* the counter-clockwise and clockwise buttons of the toolbar
RotateCcw ==
    /\ Mounted
    /\ canvas.jewelryRotation - 15 >= 0 - MaxRotation
    /\ canvas' = Handled([canvas EXCEPT !.jewelryRotation = @ - 15],
                         "rotate", FALSE)
    /\ UNCHANGED <<call, ret, req, gen, preview>>

RotateCw ==
    /\ Mounted
    /\ canvas.jewelryRotation + 15 <= MaxRotation
    /\ canvas' = Handled([canvas EXCEPT !.jewelryRotation = @ + 15],
                         "rotate", FALSE)
    /\ UNCHANGED <<call, ret, req, gen, preview>>

\* the - and + buttons of the rotation control
RotateFineMinus ==
    /\ Mounted
    /\ canvas' = Handled([canvas EXCEPT !.jewelryRotation = Max2(0 - 90, @ - 5)],
                         "rotate", FALSE)
    /\ UNCHANGED <<call, ret, req, gen, preview>>

RotateFinePlus ==
    /\ Mounted
    /\ canvas' = Handled([canvas EXCEPT !.jewelryRotation = Min2(90, @ + 5)],
                         "rotate", FALSE)
    /\ UNCHANGED <<call, ret, req, gen, preview>>

Reset ==
    /\ Mounted
    /\ canvas' = Handled(resetPosition(canvas), "reset", FALSE)
    /\ UNCHANGED <<call, ret, req, gen, preview>>

\* the Smart Position button is disabled while a request is in flight
SmartPositionStart ==
    /\ Mounted
    /\ ~canvas.isAnalyzing
    /\ canvas' = Handled([canvas EXCEPT !.isAnalyzing = TRUE], "smart", FALSE)
    /\ UNCHANGED <<call, ret, req, gen, preview>>

SmartPositionEnd ==
    /\ Mounted
    /\ canvas.isAnalyzing
    /\ \E answer \in SmartAnswers :
           canvas' = Handled(applyPositioning(canvas, answer), "positioned",
                             FALSE)
    /\ UNCHANGED <<call, ret, req, gen, preview>>

NextCanvas ==
    \/ Mount
    \/ MouseDown
    \/ MouseMove
    \/ MouseUp
    \/ TouchStart
    \/ TouchMove
    \/ TouchEnd
    \/ RotateCcw
    \/ RotateCw
    \/ RotateFineMinus
    \/ RotateFinePlus
    \/ Reset
    \/ SmartPositionStart
    \/ SmartPositionEnd

SpecCanvas == Init /\ [][NextCanvas]_vars

(***************************************************************************)
(* HighFidelityJewelry: the preview canvas.  drawComposite is asynchronous: *)
(* it clears the canvas, awaits the person image, draws it, awaits the      *)
(* jewelry image and draws it at the position it was created with.  The    *)
(* effect starts a run whenever the position object changes; runs in flight *)
(* proceed independently.  painted lists what was drawn since the last      *)
(* clearRect, oldest first.                                                 *)
(***************************************************************************)

\* useState<Position> initial value; the scale never changes
InitialPosition == [x |-> 300, y |-> 200]

\* drawComposite runs in flight at one time
MaxRedraws == 2

\* how far from its initial place the jewelry is followed, in pixels
MaxDrift == 50

PreviewPointers == {<<300, 200>>, <<350, 200>>, <<300, 250>>}

PersonLayer == [image |-> "person"]

JewelryLayer(position) == [image |-> "jewelry", x |-> position.x, y |-> position.y]

\* drawComposite up to its first await: clearRect, then the person image
\* starts loading
drawComposite(p, position) ==
    [p EXCEPT !.painted = <<>>,
              !.redraws = Append(@, [position |-> position, awaits |-> "person"])]

\* sequence s without its i-th element
Without(s, i) == [j \in 1..(Len(s) - 1) |-> IF j < i THEN s[j] ELSE s[j + 1]]

PreviewMounted == preview.pc = "mounted"

\* first render and the effect on drawComposite
PreviewMount ==
    /\ preview = Unmounted
    /\ preview' = drawComposite([pc |-> "mounted", position |-> InitialPosition,
                                 isDragging |-> FALSE,
                                 dragStart |-> [x |-> 0, y |-> 0],
                                 redraws |-> <<>>, painted |-> <<>>,
                                 loadFailed |-> FALSE],
                                InitialPosition)
    /\ UNCHANGED <<call, ret, req, gen, canvas>>

\* handleMouseDown of the preview: every press starts a drag
PreviewMouseDown ==
    /\ PreviewMounted
    /\ \E p \in PreviewPointers :
           preview' = [preview EXCEPT
                          !.isDragging = TRUE,
                          !.dragStart = [x |-> p[1] - preview.position.x,
                                         y |-> p[2] - preview.position.y]]
    /\ UNCHANGED <<call, ret, req, gen, canvas>>

\* handleMouseMove of the preview: setPosition with a new object, which
\* re-creates drawComposite and runs the effect
PreviewMouseMove ==
    /\ PreviewMounted
    /\ preview.isDragging
    /\ Len(preview.redraws) < MaxRedraws
    /\ \E p \in PreviewPointers :
        LET position == [x |-> p[1] - preview.dragStart.x,
                         y |-> p[2] - preview.dragStart.y]
        IN  /\ Abs(position.x - InitialPosition.x) <= MaxDrift
            /\ Abs(position.y - InitialPosition.y) <= MaxDrift
            /\ preview' = drawComposite([preview EXCEPT !.position = position],
                                        position)
    /\ UNCHANGED <<call, ret, req, gen, canvas>>

\* handleMouseUp, also bound to onMouseLeave
PreviewMouseUp ==
    /\ PreviewMounted
    /\ preview' = [preview EXCEPT !.isDragging = FALSE]
    /\ UNCHANGED <<call, ret, req, gen, canvas>>

resetToOriginal ==
    /\ PreviewMounted
    /\ Len(preview.redraws) < MaxRedraws
    /\ preview' = drawComposite([preview EXCEPT !.position = InitialPosition],
                                InitialPosition)
    /\ UNCHANGED <<call, ret, req, gen, canvas>>

\* the person image of a run loads: it is drawn over the whole canvas and
\* the jewelry image starts loading
PersonLoaded ==
    /\ PreviewMounted
    /\ \E i \in 1..Len(preview.redraws) :
           /\ preview.redraws[i].awaits = "person"
           /\ preview' = [preview EXCEPT
                             !.painted = Append(@, PersonLayer),
                             !.redraws[i].awaits = "jewelry"]
    /\ UNCHANGED <<call, ret, req, gen, canvas>>

\* the jewelry image of a run loads: it is drawn at the position of the run
JewelryLoaded ==
    /\ PreviewMounted
    /\ \E i \in 1..Len(preview.redraws) :
           /\ preview.redraws[i].awaits = "jewelry"
           /\ preview' = [preview EXCEPT
                             !.painted = Append(@, JewelryLayer(
                                                    preview.redraws[i].position)),
                             !.redraws = Without(@, i)]
    /\ UNCHANGED <<call, ret, req, gen, canvas>>

\* an image of a run fails to load: the catch block logs and the run ends
LoadFailed ==
    /\ PreviewMounted
    /\ \E i \in 1..Len(preview.redraws) :
           preview' = [preview EXCEPT !.redraws = Without(@, i),
                                      !.loadFailed = TRUE]
    /\ UNCHANGED <<call, ret, req, gen, canvas>>

NextPreview ==
    \/ PreviewMount
    \/ PreviewMouseDown
    \/ PreviewMouseMove
    \/ PreviewMouseUp
    \/ resetToOriginal
    \/ PersonLoaded
    \/ JewelryLoaded
    \/ LoadFailed

SpecPreview == Init /\ [][NextPreview]_vars

(***************************************************************************)
(* Properties                                                              *)
(***************************************************************************)

IsEstimate ==
    call.op \in {"calculateJewelryPlacement", "findOptimalJewelryPosition",
                 "analyzeJewelryPositioning"}

IsVisionAnswer ==
    /\ call.op = "analyzeJewelryPositioning"
    /\ call.outcome = "answer"

\* C1: on every strategy and fallback path the returned x lies in
\* [50, canvasWidth - 50] and the returned y in [50, canvasHeight - 50]
C1_PositionWithinCanvas ==
    IsEstimate =>
        /\ 50000 <= ret.value.x /\ ret.value.x <= (call.canvasWidth - 50) * 1000
        /\ 50000 <= ret.value.y /\ ret.value.y <= (call.canvasHeight - 50) * 1000

\* C2: on every strategy the returned scale lies in [0.1, 2.0]
C2_ScaleWithinRange ==
    IsEstimate => (100 <= ret.value.scale /\ ret.value.scale <= 2000)

\* the y and the confidence parseVisionResponse tests for a necklace: the
\* answer's value, defaulted and (on the JSON path) clamped
RawVisionY ==
    IF call.response.kind = "json"
    THEN Clamp(50000, (call.canvasHeight - 50) * 1000,
               OrElse(call.response.fields, "y", call.canvasHeight * 500))
    ELSE IF "y" \in DOMAIN call.response.fields
    THEN call.response.fields["y"]
    ELSE call.canvasHeight * 500

RawVisionConfidence ==
    IF call.response.kind = "json"
    THEN Clamp(0, 1000, OrElse(call.response.fields, "confidence", 700))
    ELSE 600

\* C3: a necklace estimate above 35% of the canvas height comes back at 55%,
\* one below 75% at 60%, on the JSON and on the regex path alike, and the
\* confidence comes back lowered by 0.3 with a floor of 0.3
C3_NecklaceCorrection ==
    (IsVisionAnswer /\ call.jewelryType = "necklace") =>
        /\ RawVisionY < call.canvasHeight * 350 =>
              /\ ret.value.y = call.canvasHeight * 550
              /\ ret.value.confidence = Max2(300, RawVisionConfidence - 300)
        /\ RawVisionY > call.canvasHeight * 750 =>
              /\ ret.value.y = call.canvasHeight * 600
              /\ ret.value.confidence = Max2(300, RawVisionConfidence - 300)

\* the primary estimation did not succeed: landmark detection or the
\* placement computation threw, the service failed, or nothing could be
\* parsed out of its answer
PrimaryFailed ==
    CASE call.op = "calculateJewelryPlacement" ->
            ~call.decodes \/ ~call.dimensions.given
      [] call.op = "findOptimalJewelryPosition" ->
            \/ call.outcome # "answer"
            \/ ~({"x", "y"} \subseteq DOMAIN call.response.fields)
      [] call.op = "analyzeJewelryPositioning" ->
            \/ call.outcome # "answer"
            \/ (call.response.kind = "text" /\ DOMAIN call.response.fields = {})

\* C4: estimate always returns, and what it returns after a failed primary
\* estimation carries confidence 0.5
C4_NeverFailsFallback ==
    IsEstimate =>
        /\ ret.status = "returned"
        /\ PrimaryFailed =>
              /\ "confidence" \in DOMAIN ret.value
              /\ ret.value["confidence"] = 500

\* C5: an answer with neither JSON nor any extractable number yields the
\* placement the service-failure fallback returns for the jewelry type
C5_UnparseableIsFallback ==
    /\ (/\ IsVisionAnswer
        /\ call.response.kind = "text"
        /\ DOMAIN call.response.fields = {}) =>
            ret.value = getFallbackPositioning(call.jewelryType, call.canvasWidth,
                                               call.canvasHeight)
    /\ (/\ call.op = "findOptimalJewelryPosition"
        /\ call.outcome = "answer"
        /\ call.response.kind = "text"
        /\ DOMAIN call.response.fields = {}) =>
            ret.value = getFallbackPosition(call.jewelryType)

IsValidate == call.op = "validateJewelryIntegrity"

\* C6: isValid only with similarity >= 1 - tolerance and an empty list of
\* deviations and quality issues
C6_ValidOnlySimilarAndClean ==
    (IsValidate /\ ret.value.isValid) =>
        /\ ret.value.similarity >= 1000 - call.tolerance
        /\ ret.value.deviations = <<>>

\* a validation of an extracted region that came out valid
C6_ValidReached ==
    /\ IsValidate
    /\ ret.value.isValid
    /\ Len(call.regions) > 0

ErrorEntries ==
    {"Validation error", "Deviation detection failed",
     "Failed to extract jewelry from composite result"}

\* an error inside validate: an image that cannot be decoded, or an
\* extraction whose try block threw
InternalError ==
    \/ ~call.original.decodes
    \/ ~call.composite.decodes
    \/ extractJewelryFromComposite(call.composite, call.regions).fellBack

\* C7: validate returns, and after any internal error the result is
\* invalid with similarity 0 and a deviation entry describing the error
C7_ErrorsReported ==
    IsValidate =>
        /\ ret.status = "returned"
        /\ InternalError =>
              /\ ~ret.value.isValid
              /\ ret.value.similarity = 0
              /\ \E i \in DOMAIN ret.value.deviations :
                    ret.value.deviations[i] \in ErrorEntries

\* C8: validating a composite that embeds the unmodified original (whose
\* own pixels pass the quality checks) gives similarity >= 1 - tolerance and
\* no deviation, whichever region the re-extraction selects
C8_RoundTrip ==
    (/\ IsValidate
     /\ call.embedded
     /\ call.measured.stdev >= 20
     /\ call.measured.mean >= 30 /\ call.measured.mean <= 225) =>
        /\ ret.value.similarity >= 1000 - call.tolerance
        /\ ret.value.deviations = <<>>

IsComposite == call.op = "compositeJewelryOnModel"

\* the overlay sharp is asked to draw fits the model image
OverlayFits ==
    /\ ret.value.jewelryWidth >= 1 /\ ret.value.jewelryHeight >= 1
    /\ ret.value.jewelryWidth <= call.modelImage.width
    /\ ret.value.jewelryHeight <= call.modelImage.height

\* C9: composite never throws; it returns the model image it was given
\* whenever a buffer is undecodable or missing, and a composite only of an
\* overlay that fits
C9_CompositeNeverThrows ==
    IsComposite =>
        /\ ret.status = "returned"
        /\ (\/ ~call.modelImage.decodes
            \/ ~call.cleanedJewelry.decodes) => ret.value = call.modelImage
        /\ ret.value # call.modelImage =>
              (ret.value.id = "composite" /\ OverlayFits)

\* the overlay does not fit (it is taller than the model image) and the
\* model image comes back
C9_FailureReturnsModel ==
    /\ IsComposite
    /\ call.modelImage.decodes /\ call.cleanedJewelry.decodes
    /\ call.cleanedJewelry.height > call.modelImage.height
    /\ ret.status = "returned"
    /\ ret.value = call.modelImage

\* C10: with no offset the centre of the resized jewelry lies at the
\* horizontal middle and at the type's vertical fraction of the model
\* image, to the pixel rounding
C10_CenterAtFraction ==
    (/\ IsComposite
     /\ ret.value.id = "composite"
     /\ ~call.positionOffset.given) =>
        /\ Abs(2 * ret.value.left + ret.value.jewelryWidth
               - call.modelImage.width) <= 2
        /\ Abs(1000 * (2 * ret.value.top + ret.value.jewelryHeight)
               - 2 * call.modelImage.height * yPositionRatio(call.jewelryType))
             <= 2000

\* C11: for a fixed body image, cutout, offset and jewelry type the
\* composite is determined by the placement: a placement that differs in
\* x, y, scale or rotation gives a different composite
C11_PlacementDeterminesComposite ==
    (IsComposite /\ ret.value.id = "composite") =>
        \A placement \in Placements :
            placement # call.placement =>
                compositeJewelryOnModel(call.modelImage, call.cleanedJewelry,
                                        placement, call.positionOffset,
                                        call.jewelryType) # ret

IsSegment == call.op = "segmentJewelry"

\* C12: for a decodable photo a failure inside the mask strategy of the
\* type does not abort segment: a segmentation is still returned
C12_StrategyFailureDegrades ==
    (/\ IsSegment
     /\ call.inputImage.decodes
     /\ call.jewelryType \in JewelryTypes
     /\ call.outcome.threw) => ret.status = "returned"

\* C13: when the AI background removal throws, segment goes on with the
\* deterministic remover and returns a segmentation whose cleaned image
\* has the size of the preprocessed photo
C13_RemovalFailureDegrades ==
    (/\ IsSegment
     /\ call.inputImage.decodes
     /\ ~call.outcome.threw
     /\ call.removal = "threw") =>
        /\ ret.status = "returned"
        /\ ret.value.cleanedJewelry.by # "ai"
        /\ ret.value.cleanedJewelry.width = ret.value.jewelryImage.width
        /\ ret.value.cleanedJewelry.height = ret.value.jewelryImage.height

\* the AI removal threw and the pixel rules produced the cleaned image
C13_PixelRulesUsed ==
    /\ IsSegment
    /\ call.removal = "threw"
    /\ ret.status = "returned"
    /\ ret.value.cleanedJewelry.by = "pixel rules"

\* C14: the bounding box of every returned segmentation lies inside the
\* cleanedJewelry image, also for photos smaller than 1024 x 1024
C14_BoundingBoxInsideImage ==
    (IsSegment /\ ret.status = "returned") =>
        LET box == ret.value.boundingBox
            image == ret.value.cleanedJewelry
        IN  /\ box.x >= 0 /\ box.y >= 0
            /\ box.x + box.width <= image.width
            /\ box.y + box.height <= image.height

Running(r) == req[r].pc # "idle"

IsPrefix(s, t) == Len(s) <= Len(t) /\ s = SubSeq(t, 1, Len(s))

\* validate completed and reported deviations or a low similarity
SoftFailure(r) ==
    /\ req[r].validationResult # Null
    /\ ~req[r].validationResult.isValid
    /\ req[r].validationResult.deviations # <<"Validation error">>

StageLocals(r) ==
    <<req[r].cleanJewelryBuffer, req[r].modelBuffer, req[r].placementData,
      req[r].compositeResult, req[r].validationResult, req[r].result>>

\* C16: the step list of a request is at every moment a prefix of the
\* fixed sequence; a stage has started only when all earlier ones have
\* completed, and after a failure no later stage has run
C16_StagesInOrder ==
    \A r \in Requests :
        Running(r) =>
            /\ IsPrefix(req[r].processingSteps, StepNames)
            /\ Len(req[r].processingSteps)
                  = IF req[r].pc = "ready" THEN req[r].stage - 1 ELSE req[r].stage
            /\ \A i \in 1..LastStage :
                  (StageLocals(r)[i] # Null)
                      <=> (i < req[r].stage \/ req[r].pc = "done")

\* one request ran all six stages while the other stopped at a failed
\* model generation
C16_FullAndFailedRun ==
    /\ req[1].pc = "done"
    /\ req[1].processingSteps = StepNames
    /\ req[2].pc = "failed"
    /\ req[2].stage = 2
    /\ req[2].placementData = Null

\* C19: whatever the interleaving with the other request, a request ends
\* with the result and the steps it has when run alone, and its steps are
\* at every moment a prefix of those
C19_RequestsDoNotInterfere ==
    \A r \in Requests :
        Running(r) =>
            LET alone == processVirtualTryOn(req[r].request, req[r].answers)
            IN  /\ IsPrefix(req[r].processingSteps, alone.processingSteps)
                /\ req[r].pc \in {"done", "failed"} => req[r] = alone

\* both requests have ended, with different inputs and different outcomes
C19_BothEnded ==
    /\ req[1].pc = "done"
    /\ req[2].pc = "failed"
    /\ req[2].stage = LastStage
    /\ req[1].request # req[2].request

Generating == gen.pc # "idle"

\* C17: generateBaseModel calls the generation service at most 3 times and
\* then terminates, with an image or with an error
C17_BoundedRetry ==
    /\ [](Generating =>
            /\ gen.serviceCalls <= 3
            /\ gen.pc = "done" => gen.result = "image"
            /\ gen.pc = "failed" => gen.result \notin {"none", "image"})
    /\ (Generating ~> (gen.pc \in {"done", "failed"}))

\* the service was called three times and the generation failed
C17_ThreeCallsThenError ==
    /\ Generating
    /\ gen.pc = "failed"
    /\ gen.serviceCalls = 3

\* C18: when generation is retried because the model failed the
\* jewelry-free check, the fixed delay has elapsed by the next call of the
\* generation service
C18_DelayBeforeRetry ==
    (Generating /\ gen.pc = "service" /\ gen.retrying = "jewelry") =>
        gen.waited = RetryDelay

\* the rectangles of a region list
Rectangles(regions) ==
    {[x |-> regions[i].x, y |-> regions[i].y, width |-> regions[i].width,
      height |-> regions[i].height] : i \in DOMAIN regions}

\* C20: combineRegions applied to its own result gives the same set of
\* rectangles
C20_CombineIdempotent ==
    call.op = "combineRegions" =>
        Rectangles(combineRegions(ret.value)) = Rectangles(ret.value)

\* C21: on an empty candidate list selectBestJewelryRegion returns the
\* centred square whose side is 30% of min(W, H), with confidence 0.1
C21_EmptyListFallback ==
    (call.op = "selectBestJewelryRegion" /\ call.regions = <<>>) =>
        LET side == Min2(call.imageWidth, call.imageHeight) * 300
            best == ret.value
        IN  /\ best.width = side /\ best.height = side
            /\ 2 * best.x + side = call.imageWidth * 1000
            /\ 2 * best.y + side = call.imageHeight * 1000
            /\ best.confidence = 100

\* the fallback was returned for a 33 x 777 image
C21_FallbackReturned ==
    /\ call.op = "selectBestJewelryRegion"
    /\ call.regions = <<>>
    /\ call.imageWidth = 33
    /\ ret.value.width = 9900

\* C22: with no face region found the heuristic necklace placement is the
\* documented default: x at the horizontal centre, y at 30% of the canvas
\* height (in pixels or as a fraction), scale 0.6, rotation 0 and
\* confidence 0.5
C22_HeuristicNecklaceDefault ==
    (/\ call.op = "calculateJewelryPlacement"
     /\ call.jewelryType = "necklace"
     /\ call.dimensions.given
     /\ call.region = NoRegion) =>
        /\ ret.value.x \in {500, call.canvasWidth * 500}
        /\ ret.value.y \in {300, call.canvasHeight * 300}
        /\ ret.value.scale = 600
        /\ ret.value.rotation = 0
        /\ "confidence" \in DOMAIN ret.value
        /\ ret.value["confidence"] = 500

\* C23: every placement an estimator returns with a rotation has it within
\* [-45, 45] degrees, on the heuristic and on the vision-assisted strategy
C23_RotationWithin45 ==
    (call.op \in {"calculateJewelryPlacement", "findOptimalJewelryPosition"}) =>
        /\ ret.value.rotation >= 0 - 45000
        /\ ret.value.rotation <= 45000

\* the pixels of a raw mask above 128, as (x, y) in an image of the given
\* width
MaskPixels(mask, width) == {<<i % width, i \div width>> : i \in mask.on}

\* C24: the bounding box is the smallest rectangle containing every mask
\* pixel above 128; with no such pixel it is the centred box covering 80%
\* of the image in each dimension, to the pixel
C24_TightBoxOrCentredFallback ==
    (IsSegment /\ ret.status = "returned" /\ ret.value.jewelryMask.raw) =>
        LET image == ret.value.jewelryImage
            box == ret.value.boundingBox
            pixels == MaskPixels(ret.value.jewelryMask, image.width)
            xs == {px[1] : px \in pixels}
            ys == {px[2] : px \in pixels}
        IN  IF pixels = {}
            THEN /\ Abs(10 * box.width - 8 * image.width) <= 10
                 /\ Abs(10 * box.height - 8 * image.height) <= 10
                 /\ Abs(2 * box.x + box.width - image.width) <= 1
                 /\ Abs(2 * box.y + box.height - image.height) <= 1
            ELSE /\ box.x = SetMin(xs) /\ box.y = SetMin(ys)
                 /\ box.x + box.width = SetMax(xs) + 1
                 /\ box.y + box.height = SetMax(ys) + 1

\* pixels p and q, as indices of a grid of the given width, share an edge
Adjacent(p, q, width) ==
    \/ p \div width = q \div width /\ Abs((p % width) - (q % width)) = 1
    \/ p % width = q % width /\ Abs((p \div width) - (q \div width)) = 1

RECURSIVE Grow(_, _, _)
Grow(S, mask, width) ==
    LET T == S \cup {q \in mask : \E p \in S : Adjacent(p, q, width)}
    IN  IF T = S THEN S ELSE Grow(T, mask, width)

\* the 4-connected component of the set pixel p
ComponentOf(p, mask, width) == Grow({p}, mask, width)

\* C25: on a mask with a set pixel the search returns the tight box and the
\* pixel count of a largest 4-connected component, and marks no pixel twice
C25_LargestComponentFound ==
    (call.op = "findLargestRegion" /\ call.mask # {}) =>
        /\ ret.status = "returned"
        /\ ret.value # Null
        /\ \E p \in call.mask :
              LET c == ComponentOf(p, call.mask, call.width)
              IN  /\ ret.value.area = Cardinality(c)
                  /\ ret.value.left = SetMin({q % call.width : q \in c})
                  /\ ret.value.right = SetMax({q % call.width : q \in c})
                  /\ ret.value.top = SetMin({q \div call.width : q \in c})
                  /\ ret.value.bottom = SetMax({q \div call.width : q \in c})
                  /\ \A q \in call.mask :
                        Cardinality(ComponentOf(q, call.mask, call.width))
                            <= Cardinality(c)
        /\ \A i, j \in 1..Len(ret.visited) :
              ret.visited[i] = ret.visited[j] => i = j
        /\ \A i \in 1..Len(ret.visited) : ret.visited[i] \in call.mask

\* a lone pixel touches a pair of pixels by a corner only: the pair is found
C25_DiagonalNotJoined ==
    /\ call.op = "findLargestRegion"
    /\ call.width = 3 /\ call.height = 3
    /\ call.mask = {0, 4, 5}
    /\ ret.value.area = 2
    /\ ret.value.left = 1 /\ ret.value.right = 2
    /\ ret.value.top = 1 /\ ret.value.bottom = 1

IsPointerDown == canvas'.event.kind \in {"mousedown", "touchstart"}

IsPointerMove == canvas'.event.kind \in {"mousemove", "touchmove"}

IsPointerUp == canvas'.event.kind \in {"mouseup", "touchend"}

\* C26: in the positioning canvas a pointer-down outside the hit area (or
\* with more than one finger) changes nothing and starts no drag, a hit
\* starts a drag, a pointer-move changes the position only while a drag is
\* in progress, a drag in progress lasts until a pointer-up, and a
\* pointer-up ends it
C26_DragStateMachine ==
    [][Mounted =>
        /\ (IsPointerDown /\ ~canvas'.event.hit) =>
              /\ canvas'.isDragging = canvas.isDragging
              /\ canvas'.dragStart = canvas.dragStart
              /\ canvas'.jewelryPosition = canvas.jewelryPosition
        /\ (IsPointerDown /\ canvas'.event.hit) => canvas'.isDragging
        /\ (IsPointerMove /\ canvas'.jewelryPosition # canvas.jewelryPosition)
              => canvas.isDragging
        /\ (canvas.isDragging /\ ~canvas'.isDragging) => IsPointerUp
        /\ (~canvas.isDragging /\ canvas'.isDragging) => IsPointerDown
        /\ IsPointerUp => ~canvas'.isDragging]_vars

\* the necklace was dragged from its default position to the right edge
C26_DraggedToEdge ==
    /\ Mounted
    /\ canvas.event.kind = "mousemove"
    /\ canvas.isDragging
    /\ canvas.jewelryType = "necklace"
    /\ canvas.jewelryPosition = [x |-> 1150, y |-> 270]
    /\ canvas.dragStart = [x |-> 20, y |-> 10]

\* C30: in the positioning canvas the rotation stays within [-90, 90]
\* degrees whatever rotation buttons, resets and smart positionings occur
C30_RotationWithin90 ==
    Mounted => canvas.jewelryRotation >= 0 - 90 /\ canvas.jewelryRotation <= 90

\* C27: generateBaseModel returns an image the checker flagged only from
\* its third and last attempt
C27_FlaggedOnlyFromLastAttempt ==
    (Generating /\ gen.pc = "done" /\ gen.flagged) =>
        /\ gen.attempt = maxRetries
        /\ gen.serviceCalls = maxRetries

\* a flagged image is returned after an earlier service error
C27_FlaggedReturnedAfterError ==
    /\ Generating
    /\ gen.pc = "done"
    /\ gen.flagged
    /\ gen.attempt = 3
    /\ gen.retrying = "error"

\* what the canvas shows: the last person image drawn and what was drawn
\* over it
RECURSIVE Visible(_)
Visible(painted) ==
    IF painted = <<>> THEN <<>>
    ELSE IF \E i \in 2..Len(painted) : painted[i] = PersonLayer
    THEN Visible(Tail(painted))
    ELSE painted

\* C28: once no redraw of the preview is in flight (and no image failed to
\* load) the canvas shows the person image with the jewelry over it at the
\* latest position and at no other position
C28_LatestPositionShown ==
    (PreviewMounted /\ preview.redraws = <<>> /\ ~preview.loadFailed) =>
        LET shown == Visible(preview.painted)
        IN  /\ Len(shown) >= 2
            /\ shown[1] = PersonLayer
            /\ \A i \in 2..Len(shown) :
                  shown[i] = JewelryLayer(preview.position)

\* C29: for the regions the detectors produce on a W x H composite the
\* padded, rounded extraction rectangle lies inside the image, so it is
\* the rectangle that is cut out
C29_PaddedExtractInside ==
    (call.op = "extractJewelryFromComposite" /\ call.regions # <<>>) =>
        LET rect == paddedExtract(
                        selectBestJewelryRegion(call.regions, call.width,
                                                call.height),
                        call.width, call.height)
        IN  /\ rect.left >= 0 /\ rect.top >= 0
            /\ rect.width > 0 /\ rect.height > 0
            /\ rect.left + rect.width <= call.width
            /\ rect.top + rect.height <= call.height
            /\ ~ret.value.fellBack
            /\ ret.value.rect = rect

\* the padding of a region next to the right edge was cut at the edge
C29_CutAtRightEdge ==
    /\ call.op = "extractJewelryFromComposite"
    /\ call.width = 61
    /\ call.regions # <<>>
    /\ ~ret.value.fellBack
    /\ ret.value.rect.left = 34
    /\ ret.value.rect.width = 27

====
